---- MODULE Spec2Model ----
(***************************************************************************)
(* MemOS Cloud OpenClaw plugin: the recall/capture pipeline (index.js),    *)
(* the heartbeat classifier (lib/heartbeat-filter.js), the API client      *)
(* (callApi) and the telemetry subsystem (lib/stats.js).                   *)
(*                                                                         *)
(* Text is a sequence of one-character strings.  An absent string field    *)
(* (undefined) is the empty text or the empty string: every place the code *)
(* reads such a field treats undefined and "" alike (||, ??, !x, ===).     *)
(* An optional value (null or a value) is a sequence of length 0 or 1.     *)
(***************************************************************************)
EXTENDS Integers, Sequences, FiniteSets, TLC

\* ------------------------------------------------------------------ bounds

\* Largest retry budget a configuration of the model carries.
MaxRetries == 2
\* Clock ticks the model lets pass after the process has started.
MaxTicks == 1
\* Lifecycle-handler and direct client invocations per behaviour.
MaxInvocations == 1
\* Turn-end events per behaviour of the capture model.
MaxCaptures == 2
\* Messages of the session history handed to the heartbeat classifier.
MaxMessages == 3
MaxTurnMessages == 3
MaxCallerWrites == 1
MaxArrays == 1
\* Events recorded per process, and restarts, of the persistence model.
MaxDashEvents == 2
MaxRestarts == 1
\* Events handed to the command:new hook per behaviour.
MaxSignals == 2
\* record calls of the telemetry workload beyond the ring buffer's capacity.
ExtraRecords == 3

\* --------------------------------------------------------- program constants

\* const MAX_LOG_ENTRIES = 200;
MAX_LOG_ENTRIES == 200
\* await delay(100 * (attempt + 1)): the backoff unit, in ms.
BackoffUnitMs == 100

\* Date.now() when the process starts, in ms: any value far from 0, the
\* initial lastCaptureTime.  The clock advances TickMs per tick.
StartTime == 1000
TickMs == 100

\* ------------------------------------------------------------------- text

Max(a, b) == IF a >= b THEN a ELSE b
Min(a, b) == IF a <= b THEN a ELSE b

\* text.slice(from) for 0 <= from (0-based).
SliceFrom(t, from) == SubSeq(t, from + 1, Len(t))

\* text.slice(0, n) for n >= 0.
SliceTo(t, n) == SubSeq(t, 1, Min(n, Len(t)))

\* Whether needle occurs in t at 0-based index i.
OccursAt(t, needle, i) ==
    /\ i >= 0
    /\ i + Len(needle) <= Len(t)
    /\ SubSeq(t, i + 1, i + Len(needle)) = needle

\* String.prototype.includes
Includes(t, needle) == \E i \in 0..Len(t) : OccursAt(t, needle, i)

\* String.prototype.lastIndexOf: -1 when absent.
LastIndexOf(t, needle) ==
    IF Includes(t, needle)
    THEN CHOOSE i \in 0..Len(t) :
            /\ OccursAt(t, needle, i)
            /\ \A j \in 0..Len(t) : OccursAt(t, needle, j) => j <= i
    ELSE -1

\* The whitespace characters of the texts: the space and the line feed.
Whitespace == {" ", "\n"}

\* String.prototype.trimStart
RECURSIVE TrimStart(_)
TrimStart(t) == IF t # <<>> /\ Head(t) \in Whitespace THEN TrimStart(Tail(t)) ELSE t

\* Array.prototype.join(" ") of a sequence of texts.
RECURSIVE JoinSpace(_)
JoinSpace(ts) ==
    IF ts = <<>> THEN <<>>
    ELSE IF Len(ts) = 1 THEN ts[1]
    ELSE ts[1] \o <<" ">> \o JoinSpace(Tail(ts))

\* --------------------------------------------------------- message content

\* A message content: a string, an array of blocks, null/undefined, or
\* another object.
StrContent(t) == [t |-> "str", s |-> t, b |-> <<>>]
ArrContent(blocks) == [t |-> "arr", s |-> <<>>, b |-> blocks]
NullContent == [t |-> "null", s |-> <<>>, b |-> <<>>]
ObjContent == [t |-> "obj", s |-> <<>>, b |-> <<>>]

TextBlock(t) == [type |-> "text", text |-> t]
ImageBlock == [type |-> "image", text |-> <<>>]

\* !content : null, undefined and "" are falsy; arrays and objects are truthy.
Falsy(content) == content.t = "null" \/ (content.t = "str" /\ content.s = <<>>)

IsTextBlock(b) == b.type = "text"

BlockTexts(blocks) ==
    LET kept == SelectSeq(blocks, IsTextBlock)
    IN [i \in 1..Len(kept) |-> kept[i].text]

\* export function extractText(content)
extractText(content) ==
    IF Falsy(content) THEN <<>>
    ELSE IF content.t = "str" THEN content.s
    ELSE IF content.t = "arr" THEN JoinSpace(BlockTexts(content.b))
    ELSE <<>>

\* ---------------------------------------------------------- configuration

\* const DEFAULT_KEYWORDS = ["HEARTBEAT_OK", "HEARTBEAT.md"]: two sentinel
\* words, each a text of its own.
DEFAULT_KEYWORDS == << <<"H", "O">>, <<"H", "m">> >>

\* export const USER_QUERY_MARKER: a reserved token that cannot overlap
\* itself, so one character stands for it.
USER_QUERY_MARKER == <<"M">>

\* The effective configuration buildConfig returns when the plugin config and
\* the environment set nothing but a credential.
DefaultCfg ==
    [ apiKey |-> "key",
      conversationId |-> "",
      conversationIdPrefix |-> "",
      conversationIdSuffix |-> "",
      conversationSuffixMode |-> "none",
      resetOnNew |-> TRUE,
      recallEnabled |-> TRUE,
      addEnabled |-> TRUE,
      captureStrategy |-> "last_turn",
      maxMessageChars |-> 20000,
      includeAssistant |-> TRUE,
      timeoutMs |-> 5000,
      retries |-> 1,
      throttleMs |-> 0,
      ignoreHeartbeats |-> TRUE,
      heartbeatKeywords |-> DEFAULT_KEYWORDS ]

\* ---------------------------------------------------- events and contexts

\* A lifecycle event with none of the inspected fields set.
EmptyEvent ==
    [ isHeartbeat |-> FALSE, type |-> "", source |-> "", metaHb |-> FALSE,
      prompt |-> <<>>, messages |-> <<>>, success |-> FALSE ]

\* A session context with none of the inspected fields set.
EmptyCtx ==
    [ isHeartbeat |-> FALSE, source |-> "", messageProvider |-> "",
      sessionKey |-> "", sessionId |-> "", agentId |-> "" ]

Msg(role, content) == [role |-> role, content |-> content]

IsUserMsg(m) == m.role = "user"

\* The 1-based index of the last user-authored message, 0 when there is none.
LastUserIndex(messages) ==
    IF \E i \in 1..Len(messages) : IsUserMsg(messages[i])
    THEN CHOOSE i \in 1..Len(messages) :
            /\ IsUserMsg(messages[i])
            /\ \A j \in 1..Len(messages) : IsUserMsg(messages[j]) => j <= i
    ELSE 0

\* ----------------------------------------------------- heartbeat classifier

\* keywords.some((kw) => text.includes(kw))
SomeKeywordIn(keywords, t) == \E k \in 1..Len(keywords) : Includes(t, keywords[k])

\* The text the classifier reads from a message content (layer 3).
HeartbeatText(content) ==
    IF content.t = "str" THEN content.s
    ELSE IF content.t = "arr" THEN JoinSpace(BlockTexts(content.b))
    ELSE <<>>

\* Layer 1: explicit properties of the event or the context.
ExplicitHeartbeat(event, ctx) ==
    \/ event.isHeartbeat
    \/ ctx.isHeartbeat
    \/ event.type \in {"heartbeat", "system_heartbeat"}
    \/ event.source \in {"heartbeat", "system_heartbeat"}
    \/ ctx.source = "heartbeat"
    \/ ctx.messageProvider = "heartbeat"
    \/ event.metaHb

\* cfg.heartbeatKeywords?.length ? cfg.heartbeatKeywords : DEFAULT_KEYWORDS
KeywordsOf(c) ==
    IF Len(c.heartbeatKeywords) > 0 THEN c.heartbeatKeywords ELSE DEFAULT_KEYWORDS

\* Layer 3 scanning every message of the session history, whatever its role.
AnyMessageKeyword(event, keywords) ==
    \E i \in 1..Len(event.messages) :
        /\ ~Falsy(event.messages[i].content)
        /\ LET text == HeartbeatText(event.messages[i].content)
           IN text # <<>> /\ SomeKeywordIn(keywords, text)

\* Layer 3: keyword matching on the LAST user message only.
LastUserKeyword(event, keywords) ==
    LET i == LastUserIndex(event.messages)
    IN /\ Len(event.messages) > 0
       /\ i > 0
       /\ ~Falsy(event.messages[i].content)
       /\ LET text == HeartbeatText(event.messages[i].content)
          IN text # <<>> /\ SomeKeywordIn(keywords, text)

\* A classifier that does not look at cfg.ignoreHeartbeats.
isHeartbeatEventAlwaysOn(event, ctx, c) ==
    \/ ExplicitHeartbeat(event, ctx)
    \/ (event.prompt # <<>> /\ SomeKeywordIn(KeywordsOf(c), event.prompt))
    \/ LastUserKeyword(event, KeywordsOf(c))

\* export function isHeartbeatEvent(event, ctx, cfg)
isHeartbeatEvent(event, ctx, c) ==
    IF ~c.ignoreHeartbeats THEN FALSE
    ELSE \/ ExplicitHeartbeat(event, ctx)
         \/ (event.prompt # <<>> /\ SomeKeywordIn(KeywordsOf(c), event.prompt))
         \/ LastUserKeyword(event, KeywordsOf(c))

\* ------------------------------------------------------- message selection

\* A truncate that cuts without marking the cut.
truncateSilently(text, maxLen) ==
    IF maxLen # 0 /\ Len(text) > maxLen THEN SliceTo(text, maxLen) ELSE text

\* function stripPrependedPrompt(content)
stripPrependedPrompt(content) ==
    IF content = <<>> THEN content
    ELSE LET idx == LastIndexOf(content, USER_QUERY_MARKER)
         IN IF idx = -1 THEN content
            ELSE TrimStart(SliceFrom(content, idx + Len(USER_QUERY_MARKER)))

\* function truncate(text, maxLen) of index.js
truncate(text, maxLen) ==
    IF text = <<>> THEN <<>>
    ELSE IF maxLen = 0 THEN text
    ELSE IF Len(text) > maxLen THEN SliceTo(text, maxLen) \o <<".", ".", ".">>
    ELSE text

\* What one message contributes to the capture: at most one selected message.
PickOne(msg, c) ==
    IF msg.role = "user"
    THEN LET content == stripPrependedPrompt(extractText(msg.content))
         IN IF content # <<>>
            THEN << [role |-> "user", content |-> truncate(content, c.maxMessageChars)] >>
            ELSE <<>>
    ELSE IF msg.role = "assistant" /\ c.includeAssistant
    THEN LET content == extractText(msg.content)
         IN IF content # <<>>
            THEN << [role |-> "assistant", content |-> truncate(content, c.maxMessageChars)] >>
            ELSE <<>>
    ELSE <<>>

RECURSIVE PickAll(_, _)
PickAll(messages, c) ==
    IF messages = <<>> THEN <<>>
    ELSE PickOne(Head(messages), c) \o PickAll(Tail(messages), c)

\* A full-session loop body that takes user content as it is.
PickOneOfSessionKeepsPrompt(msg, c) ==
    (IF msg.role = "user"
     THEN LET content == extractText(msg.content)
          IN IF content # <<>>
             THEN << [role |-> "user", content |-> truncate(content, c.maxMessageChars)] >>
             ELSE <<>>
     ELSE <<>>)
    \o (IF msg.role = "assistant" /\ c.includeAssistant
        THEN LET content == extractText(msg.content)
             IN IF content # <<>>
                THEN << [role |-> "assistant",
                         content |-> truncate(content, c.maxMessageChars)] >>
                ELSE <<>>
        ELSE <<>>)

\* The loop body of pickFullSessionMessages: the user branch, without a
\* continue, and then the assistant branch.
PickOneOfSession(msg, c) ==
    (IF msg.role = "user"
     THEN LET content == stripPrependedPrompt(extractText(msg.content))
          IN IF content # <<>>
             THEN << [role |-> "user", content |-> truncate(content, c.maxMessageChars)] >>
             ELSE <<>>
     ELSE <<>>)
    \o (IF msg.role = "assistant" /\ c.includeAssistant
        THEN LET content == extractText(msg.content)
             IN IF content # <<>>
                THEN << [role |-> "assistant",
                         content |-> truncate(content, c.maxMessageChars)] >>
                ELSE <<>>
        ELSE <<>>)

RECURSIVE PickAllOfSession(_, _)
PickAllOfSession(messages, c) ==
    IF messages = <<>> THEN <<>>
    ELSE PickOneOfSession(Head(messages), c) \o PickAllOfSession(Tail(messages), c)

\* function pickFullSessionMessages(messages, cfg)
pickFullSessionMessages(messages, c) == PickAllOfSession(messages, c)

\* A last-turn selection that does not cut the session at the last user message.
pickLastTurnWholeSession(messages, c) == PickAll(messages, c)

\* function pickLastTurnMessages(messages, cfg)
pickLastTurnMessages(messages, c) ==
    LET lastUserIndex == LastUserIndex(messages)
    IN IF lastUserIndex = 0 THEN <<>>
       ELSE PickAll(SubSeq(messages, lastUserIndex, Len(messages)), c)

\* cfg.captureStrategy === "full_session" ? pickFullSession : pickLastTurn
SelectMessages(messages, c) ==
    IF c.captureStrategy = "full_session"
    THEN pickFullSessionMessages(messages, c)
    ELSE pickLastTurnMessages(messages, c)

\* ----------------------------------------------------------------- state

VARIABLES
    cfg,                  \* the effective configuration register() closes over
    now,                  \* Date.now()
    lastCaptureTime,      \* index.js: let lastCaptureTime = 0
    conversationCounters, \* index.js: const conversationCounters = new Map()
    counters,             \* stats.js: let counters = {...}
    logBuffer,            \* stats.js: const logBuffer = []
    nextId,               \* stats.js: let nextId = 1
    slots,                \* the invocations in flight, one per slot
    invocations,          \* invocations started so far
    lastAccepted,         \* the last capture attempt that passed the throttle
    hb,                   \* the classifier's last input and verdict
    ids,                  \* the identity resolver's calls and the signals seen
    workload,             \* the telemetry workload's pattern of record kinds
    pluginConfig,         \* api.pluginConfig, the host's static configuration
    configOverrides,      \* stats.js: the dashboard's overrides
    stateFile,            \* the durable snapshot, STATE_FILE
    exchange,             \* the last dashboard request or restore, and its answer
    fmt,                  \* one recall result on its way through formatting and capture
    turn,                 \* event.messages of one turn, and what agent_end selects
    caller                \* a caller of the read accessors: what it holds, and the arrays on the heap

vars == << cfg, now, lastCaptureTime, conversationCounters, counters, logBuffer,
           nextId, slots, invocations, lastAccepted, hb, ids, workload,
           pluginConfig, configOverrides, stateFile, exchange, fmt, turn, caller >>

diskVars == << pluginConfig, configOverrides, stateFile, exchange >>

auxVars == << diskVars, fmt, turn, caller >>

statsVars == << counters, logBuffer, nextId >>

\* ------------------------------------------------------------- telemetry

\* stats.js: the counters a fresh process starts from (startedAt: null).
ZeroCounters ==
    [ totalEvents |-> 0, heartbeatsFiltered |-> 0, searchCalls |-> 0,
      addCalls |-> 0, errors |-> 0, startedAt |-> <<>> ]

\* An object without own properties, as a map from property names.
EmptyObject == [k \in {} |-> 0]

\* No state file on disk.
NoFile == <<>>

NoExchange == [op |-> "none"]

\* The kinds recordEvent's switch knows, and one it does not.
EventKinds ==
    { "heartbeat_filtered", "search", "add", "error", "search_error",
      "add_error", "other" }

\* Counters where a failed search counts as a search call as well.
CountEventSearchErrorTwice(c, type) ==
    LET c1 == [c EXCEPT !.totalEvents = @ + 1]
    IN IF type = "heartbeat_filtered" THEN [c1 EXCEPT !.heartbeatsFiltered = @ + 1]
       ELSE IF type = "search" THEN [c1 EXCEPT !.searchCalls = @ + 1]
       ELSE IF type = "add" THEN [c1 EXCEPT !.addCalls = @ + 1]
       ELSE IF type = "search_error"
       THEN [c1 EXCEPT !.errors = @ + 1, !.searchCalls = @ + 1]
       ELSE IF type \in {"error", "add_error"} THEN [c1 EXCEPT !.errors = @ + 1]
       ELSE c1

\* recordEvent, lines 112-129: the counters after one event of kind type.
CountEvent(c, type) ==
    LET c1 == [c EXCEPT !.totalEvents = @ + 1]
    IN IF type = "heartbeat_filtered" THEN [c1 EXCEPT !.heartbeatsFiltered = @ + 1]
       ELSE IF type = "search" THEN [c1 EXCEPT !.searchCalls = @ + 1]
       ELSE IF type = "add" THEN [c1 EXCEPT !.addCalls = @ + 1]
       ELSE IF type \in {"error", "search_error", "add_error"}
       THEN [c1 EXCEPT !.errors = @ + 1]
       ELSE c1

\* What a caller hands to recordEvent: the kind, details.durationMs and
\* details.error (each optional).
Details(type, durationMs, error) ==
    [type |-> type, durationMs |-> durationMs, error |-> error]

\* recordEvent, lines 131-140: the log entry.
LogEntry(id, at, d) ==
    [ id |-> id, timestamp |-> at, type |-> d.type,
      durationMs |-> d.durationMs, error |-> d.error ]

\* A push that drops the newest entry when over capacity.
PushDropNewest(buf, entry) ==
    LET pushed == Append(buf, entry)
    IN IF Len(pushed) > MAX_LOG_ENTRIES THEN SubSeq(pushed, 1, MAX_LOG_ENTRIES)
       ELSE pushed

\* A push that shifts one entry too late.
PushShiftLate(buf, entry) ==
    LET pushed == Append(buf, entry)
    IN IF Len(pushed) > MAX_LOG_ENTRIES + 1 THEN Tail(pushed) ELSE pushed

\* recordEvent, lines 142-145: push, then shift when over capacity.
PushBounded(buf, entry) ==
    LET pushed == Append(buf, entry)
    IN IF Len(pushed) > MAX_LOG_ENTRIES THEN Tail(pushed) ELSE pushed

\* A recordEvent that reads the id without advancing it.
AfterRecordStaleId(st, at, d) ==
    [ counters |-> CountEvent(st.counters, d.type),
      logBuffer |-> PushBounded(st.logBuffer, LogEntry(st.nextId, at, d)),
      nextId |-> st.nextId ]

\* The telemetry state after recordEvent(d.type, d) at time `at`.
AfterRecord(st, at, d) ==
    [ counters |-> CountEvent(st.counters, d.type),
      logBuffer |-> PushBounded(st.logBuffer, LogEntry(st.nextId, at, d)),
      nextId |-> st.nextId + 1 ]

\* The telemetry state after the record calls ds, in order.
RECURSIVE AfterRecords(_, _, _)
AfterRecords(st, at, ds) ==
    IF ds = <<>> THEN st
    ELSE AfterRecords(AfterRecord(st, at, Head(ds)), at, Tail(ds))

StatsNow == [counters |-> counters, logBuffer |-> logBuffer, nextId |-> nextId]

\* export function recordEvent(type, details), once per element of ds.
recordEvents(ds) ==
    LET st == AfterRecords(StatsNow, now, ds)
    IN /\ counters' = st.counters
       /\ logBuffer' = st.logBuffer
       /\ nextId' = st.nextId

\* ------------------------------------------------------------- API client

\* The outcomes of one attempt that throw inside callApi's try block: fetch
\* rejects (network error, abort by the timeout), the status is not 2xx, or
\* res.json() rejects.
FailureKinds == {"network", "timeout", "http", "badjson"}

\* The failures of the fetch itself (the request rejects, or its status is
\* not 2xx), and those of reading the body of a 2xx response.
FetchFailures == {"network", "timeout", "http"}
BodyFailures == {"badjson"}

\* The parsed JSON of a 2xx response, by what formatPromptBlock makes of it:
\* usable fact or preference lines, none, no data member, or a list member
\* that is no array.
ResponseKinds == {"facts", "empty", "nodata", "badshape"}

\* The members of the config callApi destructures.
ClientCfg(c) == [apiKey |-> c.apiKey, timeoutMs |-> c.timeoutMs, retries |-> c.retries]

NoCall ==
    [ apiKey |-> "", timeoutMs |-> 0, retries |-> 0, st |-> "none",
      attempt |-> 0, attempts |-> 0, lastError |-> "undefined",
      result |-> "", sentAt |-> 0, wakeAt |-> 0, delays |-> <<>>,
      errors |-> <<>>, failedAt |-> 0, timerArmed |-> FALSE ]

\* A loop that stops one attempt early.
LoopCondStrict(attempt, retries) == attempt < retries

\* for (...; attempt <= retries; ...)
LoopCond(attempt, retries) == attempt <= retries

\* if (attempt < retries) await delay(...)
ShouldDelay(attempt, retries) == attempt < retries

\* A delay that does not grow with the attempt.
BackoffFlat(attempt) == BackoffUnitMs

\* delay(100 * (attempt + 1))
BackoffMs(attempt) == BackoffUnitMs * (attempt + 1)

\* The loop test and what follows it: the next fetch, or throw lastError.
LoopTest(c, at) ==
    IF LoopCond(c.attempt, c.retries)
    THEN [c EXCEPT !.st = "fetch", !.attempts = @ + 1, !.sentAt = at,
                   !.timerArmed = TRUE]
    ELSE [c EXCEPT !.st = "threw"]

\* A callApi that does not look at the credential before it calls.
CallEnterUnchecked(cc, at) ==
    LoopTest([NoCall EXCEPT !.apiKey = cc.apiKey, !.timeoutMs = cc.timeoutMs,
                            !.retries = cc.retries], at)

\* callApi up to its first suspension point.
CallEnter(cc, at) ==
    IF cc.apiKey = ""
    THEN [NoCall EXCEPT !.apiKey = cc.apiKey, !.timeoutMs = cc.timeoutMs,
                        !.retries = cc.retries, !.st = "threw",
                        !.lastError = "MissingCredential"]
    ELSE LoopTest([NoCall EXCEPT !.apiKey = cc.apiKey, !.timeoutMs = cc.timeoutMs,
                                 !.retries = cc.retries], at)

\* A catch block that keeps the first error it saw.
OnAttemptFailKeepsFirst(c, err, at) ==
    LET c1 == [c EXCEPT !.lastError = IF @ = "undefined" THEN err ELSE @,
                        !.errors = Append(@, err), !.failedAt = at]
    IN IF ShouldDelay(c.attempt, c.retries)
       THEN [c1 EXCEPT !.st = "backoff", !.wakeAt = at + BackoffMs(c.attempt),
                       !.delays = Append(@, BackoffMs(c.attempt))]
       ELSE LoopTest([c1 EXCEPT !.attempt = @ + 1], at)

\* catch (err) { lastError = err; if (attempt < retries) await delay(...) }
OnAttemptFail(c, err, at) ==
    LET c1 == [c EXCEPT !.lastError = err, !.errors = Append(@, err), !.failedAt = at]
    IN IF ShouldDelay(c.attempt, c.retries)
       THEN [c1 EXCEPT !.st = "backoff", !.wakeAt = at + BackoffMs(c.attempt),
                       !.delays = Append(@, BackoffMs(c.attempt))]
       ELSE LoopTest([c1 EXCEPT !.attempt = @ + 1], at)

\* The delay has elapsed: attempt += 1 and the loop test.
OnBackoffDone(c, at) == LoopTest([c EXCEPT !.attempt = @ + 1], at)

\* fetch has resolved with a 2xx status: clearTimeout(timeoutId), then
\* res.json() starts reading the body.
OnHeaders(c) == [c EXCEPT !.st = "body", !.timerArmed = FALSE]

\* return await res.json()
OnAttemptOk(c, resp) == [c EXCEPT !.st = "returned", !.result = resp]

\* Whether the attempt in flight may settle with outcome o at time `at`: the
\* abort timer fires timeoutMs after the fetch was issued.
MaySettle(c, o, at) ==
    IF o = "timeout" THEN at - c.sentAt >= c.timeoutMs
    ELSE at - c.sentAt <= c.timeoutMs

\* ---------------------------------------------------------------- handlers

IdleSlot ==
    [ kind |-> "idle", pc |-> "idle", ev |-> EmptyEvent, ctx |-> EmptyCtx,
      t0 |-> 0, call |-> NoCall, out |-> "none", ret |-> "undefined",
      err |-> "", path |-> "", recorded |-> <<>>, setCapture |-> FALSE,
      arrivedAt |-> 0, lctBefore |-> 0, prevAccepted |-> <<>> ]

\* What one synchronous stretch of a handler does: the slot afterwards, the
\* recordEvent calls it made, and the last-capture timestamp it leaves.
Step(s, rec, lct) ==
    [ s |-> [s EXCEPT !.recorded = @ \o [i \in 1..Len(rec) |-> rec[i].type]],
      rec |-> rec, lct |-> lct ]

\* The handler returns `ret` to the host.
Return(s, pathName, ret) ==
    [s EXCEPT !.pc = "done", !.out = "returned", !.ret = ret,
              !.path = IF @ = "" THEN pathName ELSE @]

\* An exception leaves the handler.
Escape(s, err) == [s EXCEPT !.pc = "done", !.out = "threw", !.err = err]

\* formatPromptBlock(result, ...): a block, the empty string, or a TypeError
\* (.map of a member that is no array).
FormatOutcome(resp) ==
    IF resp = "facts" THEN "block"
    ELSE IF resp = "badshape" THEN "throws"
    ELSE "empty"

\* A handler whose catch block lets the error go on to the host.
RecallCatchRethrows(s, err, at, lct) == Step(Escape(s, err), <<>>, lct)

\* before_agent_start, catch (err): record search_error, log, return nothing.
RecallCatch(s, err, at, lct) ==
    Step(Return(s, "called", "undefined"),
         << Details("search_error", << at - s.t0 >>, << err >>) >>, lct)

\* before_agent_start after `await searchMemory(...)` has settled.
RecallSettled(s, at, lct) ==
    IF s.call.st = "returned"
    THEN IF FormatOutcome(s.call.result) = "throws"
         THEN RecallCatch(s, "TypeError", at, lct)
         ELSE Step(Return(s, "called",
                          IF FormatOutcome(s.call.result) = "block"
                          THEN "block" ELSE "undefined"),
                   << Details("search", << at - s.t0 >>, <<>>) >>, lct)
    ELSE RecallCatch(s, s.call.lastError, at, lct)

\* The heartbeat branch of either handler: one heartbeat_filtered event.
HeartbeatBranch(s, lct) ==
    Step(Return(s, "heartbeat", "undefined"),
         << Details("heartbeat_filtered", <<>>, <<>>) >>, lct)

\* api.on("before_agent_start", ...) up to its first suspension point.
BeforeAgentStartSync(s0, at, lct) ==
    LET s == [s0 EXCEPT !.kind = "recall", !.arrivedAt = at]
    IN IF isHeartbeatEvent(s.ev, s.ctx, cfg) THEN HeartbeatBranch(s, lct)
       ELSE IF ~cfg.recallEnabled THEN Step(Return(s, "disabled", "undefined"), <<>>, lct)
       ELSE IF Len(s.ev.prompt) < 3 THEN Step(Return(s, "short", "undefined"), <<>>, lct)
       ELSE IF cfg.apiKey = "" THEN Step(Return(s, "nokey", "undefined"), <<>>, lct)
       ELSE LET s1 == [s EXCEPT !.t0 = at, !.call = CallEnter(ClientCfg(cfg), at),
                                !.pc = "await", !.path = "called"]
            IN IF s1.call.st = "threw" THEN RecallSettled(s1, at, lct)
               ELSE Step(s1, <<>>, lct)

\* agent_end, catch (err): record add_error, log.
CaptureCatch(s, err, at, lct) ==
    Step(Return(s, "called", "undefined"),
         << Details("add_error", << at - s.t0 >>, << err >>) >>, lct)

\* agent_end after `await addMessage(...)` has settled.
CaptureSettled(s, at, lct) ==
    IF s.call.st = "returned"
    THEN Step(Return(s, "called", "undefined"),
              << Details("add", << at - s.t0 >>, <<>>) >>, lct)
    ELSE CaptureCatch(s, s.call.lastError, at, lct)

\* A throttle that only suppresses a capture arriving at the very instant of
\* the last one.
ThrottleSameInstant(at, last, throttleMs) ==
    throttleMs # 0 /\ at - last <= 0

\* if (cfg.throttleMs && now - lastCaptureTime < cfg.throttleMs) return;
ThrottleSuppresses(at, last, throttleMs) ==
    throttleMs # 0 /\ at - last < throttleMs

\* api.on("agent_end", ...) up to its first suspension point.
AgentEndSync(s0, at, lct) ==
    LET s == [s0 EXCEPT !.kind = "capture", !.arrivedAt = at]
    IN IF isHeartbeatEvent(s.ev, s.ctx, cfg) THEN HeartbeatBranch(s, lct)
       ELSE IF ~cfg.addEnabled THEN Step(Return(s, "disabled", "undefined"), <<>>, lct)
       ELSE IF ~s.ev.success \/ Len(s.ev.messages) = 0
       THEN Step(Return(s, "noinput", "undefined"), <<>>, lct)
       ELSE IF cfg.apiKey = "" THEN Step(Return(s, "nokey", "undefined"), <<>>, lct)
       ELSE IF ThrottleSuppresses(at, lct, cfg.throttleMs)
       THEN Step(Return(s, "throttled", "undefined"), <<>>, lct)
       ELSE LET s1 == [s EXCEPT !.t0 = at, !.setCapture = TRUE]
            IN IF SelectMessages(s.ev.messages, cfg) = <<>>
               THEN Step(Return(s1, "empty", "undefined"), <<>>, at)
               ELSE LET s2 == [s1 EXCEPT !.call = CallEnter(ClientCfg(cfg), at),
                                         !.pc = "await", !.path = "called"]
                    IN IF s2.call.st = "threw" THEN CaptureSettled(s2, at, at)
                       ELSE Step(s2, <<>>, at)

\* A caller of the exported callApi other than the two handlers: the error,
\* if any, is the caller's.
DirectSettled(s, lct) ==
    IF s.call.st = "returned" THEN Step(Return(s, "called", "json"), <<>>, lct)
    ELSE Step(Escape([s EXCEPT !.path = "called"], s.call.lastError), <<>>, lct)

DirectSync(s0, cc, at, lct) ==
    LET s == [s0 EXCEPT !.kind = "direct", !.arrivedAt = at, !.t0 = at,
                        !.call = CallEnter(cc, at), !.pc = "await", !.path = "called"]
    IN IF s.call.st = "threw" THEN DirectSettled(s, lct) ELSE Step(s, <<>>, lct)

\* The handler (or caller) of slot s resumes after its call has settled.
Settled(s, at, lct) ==
    IF s.kind = "recall" THEN RecallSettled(s, at, lct)
    ELSE IF s.kind = "capture" THEN CaptureSettled(s, at, lct)
    ELSE DirectSettled(s, lct)

\* The handler of slot s after its call record has become c.
Resume(s, c, at, lct) ==
    LET s1 == [s EXCEPT !.call = c]
    IN IF c.st \in {"returned", "threw"} THEN Settled(s1, at, lct)
       ELSE Step(s1, <<>>, lct)

\* ------------------------------------------------------ the pipeline: Spec

Slots == {1, 2}

\* The turn events of the pipeline model: an ordinary turn, a heartbeat turn
\* (keyword in the final user message), a turn with a two-character prompt
\* that did not succeed, and a turn whose messages hold no user message.
EvNormal ==
    [EmptyEvent EXCEPT
        !.prompt = <<"a", "b", "c">>,
        !.messages = << Msg("user", StrContent(<<"h", "i">>)),
                        Msg("assistant", StrContent(<<"y", "o">>)) >>,
        !.success = TRUE]

EvHeartbeat ==
    [EvNormal EXCEPT
        !.messages = << Msg("user", StrContent(<<"h", "i">>)),
                        Msg("assistant", StrContent(<<"y", "o">>)),
                        Msg("user", StrContent(<<"H", "O">>)) >>]

EvShort == [EvNormal EXCEPT !.prompt = <<"a", "b">>, !.success = FALSE]

EvAssistantOnly ==
    [EvNormal EXCEPT !.messages = << Msg("assistant", StrContent(<<"y", "o">>)) >>]

PipelineEvents == {EvNormal, EvHeartbeat, EvShort, EvAssistantOnly}

SessionKeys == {"s1", "s2"}

CtxOf(k) == [EmptyCtx EXCEPT !.sessionKey = k]

\* The retry budgets a configuration carries (retries is not clamped).
RetriesSet == (-1)..MaxRetries

\* The effective configurations of the pipeline model.
PipelineCfgs ==
    { [DefaultCfg EXCEPT !.apiKey = k, !.retries = r, !.timeoutMs = t,
                         !.ignoreHeartbeats = ih] :
        k \in {"", "key"}, r \in RetriesSet, t \in {0, 50}, ih \in BOOLEAN }

NoProbe == [used |-> FALSE]

\* No accessor called yet, and no array allocated; filter and limit are the
\* arguments of the last getLogs call.
NoCaller ==
    [heap |-> <<>>, kind |-> "none", held |-> <<>>, writes |-> 0,
     filter |-> "", limit |-> <<>>]

\* A turn whose messages agent_end has not selected from yet.
NoTurn == [stage |-> "open", messages |-> <<>>, captured |-> <<>>]

\* The process after the module has loaded and register() has built cfg.
Loaded(cfgs) ==
    /\ pluginConfig = EmptyObject
    /\ configOverrides = EmptyObject
    /\ stateFile = NoFile
    /\ exchange = NoExchange
    /\ fmt = NoProbe
    /\ turn = NoTurn
    /\ caller = NoCaller
    /\ cfg \in cfgs
    /\ now = StartTime
    /\ lastCaptureTime = 0
    /\ conversationCounters = [k \in {} |-> 0]
    /\ counters = [ZeroCounters EXCEPT !.startedAt = << StartTime >>]
    /\ logBuffer = <<>>
    /\ nextId = 1
    /\ slots = [i \in Slots |-> IdleSlot]
    /\ invocations = 0
    /\ lastAccepted = <<>>

Init ==
    /\ Loaded(PipelineCfgs)
    /\ hb = NoProbe
    /\ ids = NoProbe
    /\ workload = <<>>

otherVars == << cfg, conversationCounters, hb, ids, workload, auxVars >>

Free(i) == slots[i].pc \in {"idle", "done"}

\* The slot, the telemetry and the last-capture timestamp after a stretch.
Apply(i, r) ==
    /\ slots' = [slots EXCEPT ![i] = r.s]
    /\ recordEvents(r.rec)
    /\ lastCaptureTime' = r.lct

\* A new invocation, with what it finds on arrival.
Fresh(ev, ctx) ==
    [IdleSlot EXCEPT !.ev = ev, !.ctx = ctx, !.lctBefore = lastCaptureTime,
                     !.prevAccepted = lastAccepted]

\* The host dispatches a turn-start event to the handler, in slot i.
TurnStart(i) ==
    /\ Free(i)
    /\ invocations < MaxInvocations
    /\ \E ev \in PipelineEvents :
          Apply(i, BeforeAgentStartSync(Fresh(ev, CtxOf("s1")), now, lastCaptureTime))
    /\ invocations' = invocations + 1
    /\ UNCHANGED << now, lastAccepted, otherVars >>

\* The host dispatches one of the turn-end events evs, of one of the sessions
\* keys, to the handler, in slot i.
AgentEnd(i, evs, keys, limit) ==
    /\ Free(i)
    /\ invocations < limit
    /\ \E ev \in evs, ctx \in {CtxOf(k) : k \in keys} :
          LET r == AgentEndSync(Fresh(ev, ctx), now, lastCaptureTime)
          IN /\ Apply(i, r)
             /\ lastAccepted' =
                    IF r.s.setCapture
                    THEN << [at |-> now, sessionKey |-> ctx.sessionKey] >>
                    ELSE lastAccepted
    /\ invocations' = invocations + 1
    /\ UNCHANGED << now, otherVars >>

TurnEnd(i) == AgentEnd(i, PipelineEvents, {"s1"}, MaxInvocations)

\* Another caller invokes the exported searchMemory or addMessage (callApi)
\* with the plugin's configuration.
DirectCall(i) ==
    /\ Free(i)
    /\ invocations < MaxInvocations
    /\ Apply(i, DirectSync(Fresh(EmptyEvent, EmptyCtx), ClientCfg(cfg), now,
                           lastCaptureTime))
    /\ invocations' = invocations + 1
    /\ UNCHANGED << now, lastAccepted, otherVars >>

InFlight(i, st) == slots[i].pc = "await" /\ slots[i].call.st = st

\* When the attempt in flight settles with outcome o: the abort timer fires
\* timeoutMs after the fetch was issued, any other outcome arrives now.
SettleTime(c, o) == IF o = "timeout" THEN Max(now, c.sentAt + c.timeoutMs) ELSE now

\* The fetch in flight rejects, or resolves with a status that is not 2xx.
AttemptFails(i) ==
    /\ InFlight(i, "fetch")
    /\ \E err \in FetchFailures :
          LET at == SettleTime(slots[i].call, err)
          IN /\ MaySettle(slots[i].call, err, at)
             /\ now' = at
             /\ Apply(i, Resume(slots[i], OnAttemptFail(slots[i].call, err, at),
                                at, lastCaptureTime))
    /\ UNCHANGED << invocations, lastAccepted, otherVars >>

\* The fetch in flight resolves with a 2xx status.
HeadersArrive(i) ==
    /\ InFlight(i, "fetch")
    /\ MaySettle(slots[i].call, "ok", now)
    /\ Apply(i, Resume(slots[i], OnHeaders(slots[i].call), now, lastCaptureTime))
    /\ UNCHANGED << now, invocations, lastAccepted, otherVars >>

\* res.json() rejects: the body is no JSON.
BodyFails(i) ==
    /\ InFlight(i, "body")
    /\ \E err \in BodyFailures :
          Apply(i, Resume(slots[i], OnAttemptFail(slots[i].call, err, now),
                          now, lastCaptureTime))
    /\ UNCHANGED << now, invocations, lastAccepted, otherVars >>

\* res.json() resolves: the attempt returns parsed JSON.
AttemptSucceeds(i) ==
    /\ InFlight(i, "body")
    /\ \E resp \in IF slots[i].kind = "recall" THEN ResponseKinds ELSE {"empty"} :
          Apply(i, Resume(slots[i], OnAttemptOk(slots[i].call, resp),
                          now, lastCaptureTime))
    /\ UNCHANGED << now, invocations, lastAccepted, otherVars >>

\* The backoff delay of slot i elapses.
BackoffElapsed(i) ==
    /\ InFlight(i, "backoff")
    /\ LET at == Max(now, slots[i].call.wakeAt)
       IN /\ now' = at
          /\ Apply(i, Resume(slots[i], OnBackoffDone(slots[i].call, at),
                             at, lastCaptureTime))
    /\ UNCHANGED << invocations, lastAccepted, otherVars >>

\* Time passes with nothing settling.
Tick ==
    /\ now < StartTime + MaxTicks * TickMs
    /\ now' = now + TickMs
    /\ UNCHANGED << lastCaptureTime, statsVars, slots, invocations, lastAccepted,
                    otherVars >>

\* One event at a time: the handler of an event has returned before the host
\* dispatches the next.
Next ==
    \/ TurnStart(1)
    \/ TurnEnd(1)
    \/ DirectCall(1)
    \/ AttemptFails(1)
    \/ HeadersArrive(1)
    \/ BodyFails(1)
    \/ AttemptSucceeds(1)
    \/ BackoffElapsed(1)
    \/ Tick

Spec == Init /\ [][Next]_vars

\* ------------------------------------- concurrent captures: SpecConcurrent

\* The configurations of the capture model: with and without a throttle.
CaptureCfgs ==
    { [DefaultCfg EXCEPT !.throttleMs = th, !.retries = 0, !.timeoutMs = 50] :
        th \in {0, 100} }

\* The turn-end events of the capture model.
CaptureEvents == {EvNormal, EvAssistantOnly}

InitConcurrent ==
    /\ Loaded(CaptureCfgs)
    /\ hb = NoProbe
    /\ ids = NoProbe
    /\ workload = <<>>

\* A turn-end event arrives while another may be awaiting its remote call.
CaptureArrives(i) == AgentEnd(i, CaptureEvents, SessionKeys, MaxCaptures)

NextConcurrent ==
    \/ \E i \in Slots : CaptureArrives(i)
    \/ \E i \in Slots : AttemptFails(i)
    \/ \E i \in Slots : HeadersArrive(i)
    \/ \E i \in Slots : BodyFails(i)
    \/ \E i \in Slots : AttemptSucceeds(i)
    \/ Tick

SpecConcurrent == InitConcurrent /\ [][NextConcurrent]_vars

\* ------------------------------------------- conversation identity: SpecId

\* conversationCounters.get(sessionKey) ?? 0
CounterOf(cc, sessionKey) == IF sessionKey \in DOMAIN cc THEN cc[sessionKey] ELSE 0

\* A suffix that counts from zero.
CounterSuffixFromZero(cc, sessionKey) ==
    IF sessionKey = "" THEN ""
    ELSE "#" \o ToString(CounterOf(cc, sessionKey))

\* function getCounterSuffix(sessionKey)
getCounterSuffix(cc, sessionKey) ==
    IF sessionKey = "" THEN ""
    ELSE IF CounterOf(cc, sessionKey) > 0
         THEN "#" \o ToString(CounterOf(cc, sessionKey))
         ELSE ""

\* A bump that also counts for an event without a session key.
bumpConversationCounterAnyKey(cc, sessionKey) ==
    [k \in DOMAIN cc \cup {sessionKey} |->
        IF k = sessionKey THEN CounterOf(cc, sessionKey) + 1 ELSE cc[k]]

\* function bumpConversationCounter(sessionKey): the map afterwards.
bumpConversationCounter(cc, sessionKey) ==
    IF sessionKey = "" THEN cc
    ELSE [k \in DOMAIN cc \cup {sessionKey} |->
            IF k = sessionKey THEN CounterOf(cc, sessionKey) + 1 ELSE cc[k]]

\* ctx?.sessionKey || ctx?.sessionId || (ctx?.agentId ? `openclaw:${...}` : "")
BaseOf(ctx) ==
    IF ctx.sessionKey # "" THEN ctx.sessionKey
    ELSE IF ctx.sessionId # "" THEN ctx.sessionId
    ELSE IF ctx.agentId # "" THEN "openclaw:" \o ctx.agentId
    ELSE ""

\* The id without the early return for a pinned id.
ComposedId(c, ctx, cc, at) ==
    LET dynamicSuffix == IF c.conversationSuffixMode = "counter"
                         THEN getCounterSuffix(cc, ctx.sessionKey) ELSE ""
    IN IF BaseOf(ctx) # ""
       THEN c.conversationIdPrefix \o BaseOf(ctx) \o dynamicSuffix \o c.conversationIdSuffix
       ELSE c.conversationIdPrefix \o "openclaw-" \o ToString(at) \o dynamicSuffix
                \o c.conversationIdSuffix

\* A resolver that decorates a pinned id like any other base.
resolveConversationIdDecorated(c, ctx, cc, at) ==
    IF c.conversationId # ""
    THEN c.conversationIdPrefix \o c.conversationId \o c.conversationIdSuffix
    ELSE ComposedId(c, ctx, cc, at)

\* function resolveConversationId(cfg, ctx), with the counter map and
\* Date.now() it reads.
resolveConversationId(c, ctx, cc, at) ==
    IF c.conversationId # "" THEN c.conversationId
    ELSE ComposedId(c, ctx, cc, at)

\* register(): whether the command:new hook is registered.
HookRegistered(c) == c.conversationSuffixMode = "counter" /\ c.resetOnNew

\* The command:new hook: the counter map after the event.
OnCommandNew(cc, event) ==
    IF event.type = "command" /\ event.action = "new"
    THEN bumpConversationCounter(cc, event.sessionKey)
    ELSE cc

\* Whether a hook event is a new-conversation signal for session key k.
IsNewSignalFor(event, k) ==
    event.type = "command" /\ event.action = "new" /\ event.sessionKey = k /\ k # ""

IdCfgs ==
    { [DefaultCfg EXCEPT !.conversationId = pin, !.conversationSuffixMode = m,
                         !.resetOnNew = rn, !.conversationIdPrefix = ps[1],
                         !.conversationIdSuffix = ps[2]] :
        pin \in {"", "pinned"}, m \in {"none", "counter"}, rn \in BOOLEAN,
        ps \in { <<"", "">>, <<"p:", ":x">> } }

\* Session contexts: nothing set, only an agent id, only a session id, a
\* session key, and everything set.
IdCtxs ==
    { EmptyCtx,
      [EmptyCtx EXCEPT !.agentId = "ag"],
      [EmptyCtx EXCEPT !.sessionId = "id1"],
      CtxOf("s1"),
      CtxOf("s2"),
      [EmptyCtx EXCEPT !.sessionKey = "s1", !.sessionId = "id1", !.agentId = "ag"] }

\* The events the host may hand to the command:new hook.
HookEvents ==
    [type : {"command", "message"}, action : {"new", "stop"},
     sessionKey : {"", "s1", "s2"}]

\* One call of the resolver: what it read and what it returned.
Resolution(ctx, id, cc, signals) ==
    [ctx |-> ctx, id |-> id, at |-> now, counters |-> cc, signals |-> signals]

InitId ==
    /\ Loaded(IdCfgs)
    /\ hb = NoProbe
    /\ ids = [used |-> TRUE, last |-> <<>>, prev |-> <<>>,
              signals |-> [k \in SessionKeys |-> 0], total |-> 0]
    /\ workload = <<>>

idFrame == << lastCaptureTime, statsVars, slots, invocations, lastAccepted, hb,
              workload, cfg, auxVars >>

\* A payload builder resolves the conversation id of a session context.
Resolve ==
    /\ \E ctx \in IdCtxs :
          ids' = [ids EXCEPT
                    !.prev = ids.last,
                    !.last = << Resolution(ctx,
                                   resolveConversationId(cfg, ctx, conversationCounters, now),
                                   conversationCounters, ids.signals) >>]
    /\ UNCHANGED << now, conversationCounters, idFrame >>

\* The host hands an event to the command:new hook, if register() registered
\* it.
CommandNew ==
    /\ HookRegistered(cfg)
    /\ ids.total < MaxSignals
    /\ \E event \in HookEvents :
          /\ conversationCounters' = OnCommandNew(conversationCounters, event)
          /\ ids' = [ids EXCEPT
                       !.total = @ + 1,
                       !.signals = [k \in SessionKeys |->
                                       IF IsNewSignalFor(event, k) THEN @[k] + 1 ELSE @[k]]]
    /\ UNCHANGED << now, idFrame >>

NextId ==
    \/ Resolve
    \/ CommandNew
    \/ Tick

SpecId == InitId /\ [][NextId]_vars

\* ------------------------------------- sessions and the pipeline: SpecSession

\* Configurations with counter suffixes, with and without the hook.
SessionCfgs ==
    { [DefaultCfg EXCEPT !.apiKey = "key", !.retries = 0, !.timeoutMs = 50,
                         !.conversationSuffixMode = "counter", !.resetOnNew = rn] :
        rn \in BOOLEAN }

InitSession ==
    /\ Loaded(SessionCfgs)
    /\ hb = NoProbe
    /\ ids = [used |-> TRUE, last |-> <<>>, prev |-> <<>>,
              signals |-> [k \in SessionKeys |-> 0], total |-> 0]
    /\ workload = <<>>

\* Turn events, their remote calls and their telemetry, with new-conversation
\* signals arriving in between.
NextSession ==
    \/ TurnStart(1)
    \/ TurnEnd(1)
    \/ AttemptFails(1)
    \/ HeadersArrive(1)
    \/ BodyFails(1)
    \/ AttemptSucceeds(1)
    \/ CommandNew

SpecSession == InitSession /\ [][NextSession]_vars

\* ------------------------------------------- heartbeat classifier: SpecHeartbeat

KeywordText == <<"H", "O">>
PlainText == <<"h", "i">>

\* The messages a session history is built from: user messages with and
\* without a keyword, as a string and as content blocks (a keyword inside one
\* text block next to an image; a keyword split over two text blocks, which
\* join(" ") separates), a user message without content, and assistant
\* messages with and without a keyword.
HistoryMessages ==
    { Msg("user", StrContent(KeywordText)),
      Msg("user", StrContent(PlainText)),
      Msg("user", ArrContent(<< ImageBlock, TextBlock(<<"x", "H", "O">>) >>)),
      Msg("user", ArrContent(<< TextBlock(<<"H">>), TextBlock(<<"O">>) >>)),
      Msg("user", NullContent),
      Msg("assistant", StrContent(KeywordText)),
      Msg("assistant", StrContent(PlainText)) }

\* What else the classifier reads: nothing, a heartbeat message provider in
\* the context, or a prompt that holds a keyword.
EvBare == [EmptyEvent EXCEPT !.success = TRUE]

HeartbeatFrames ==
    { [event |-> EvBare, ctx |-> CtxOf("s1")],
      [event |-> EvBare, ctx |-> [CtxOf("s1") EXCEPT !.messageProvider = "heartbeat"]],
      [event |-> [EvBare EXCEPT !.prompt = <<"H", "m">>], ctx |-> CtxOf("s1")] }

HeartbeatCfgs ==
    { [DefaultCfg EXCEPT !.ignoreHeartbeats = ih, !.heartbeatKeywords = kws] :
        ih \in BOOLEAN, kws \in { <<>>, << <<"H", "O">> >> } }

InitHeartbeat ==
    /\ Loaded(HeartbeatCfgs)
    /\ \E f \in HeartbeatFrames :
          hb = [used |-> TRUE, event |-> f.event, ctx |-> f.ctx, verdict |-> <<>>]
    /\ ids = NoProbe
    /\ workload = <<>>

hbFrame == << cfg, now, lastCaptureTime, conversationCounters, statsVars, slots,
             invocations, lastAccepted, ids, workload, auxVars >>

\* The session history grows by one message.
MessageArrives ==
    /\ Len(hb.event.messages) < MaxMessages
    /\ \E m \in HistoryMessages :
          hb' = [hb EXCEPT !.event.messages = Append(@, m), !.verdict = <<>>]
    /\ UNCHANGED hbFrame

\* A hook handler asks whether its event is a heartbeat.
Classify ==
    /\ hb.verdict = <<>>
    /\ hb' = [hb EXCEPT !.verdict = << isHeartbeatEvent(hb.event, hb.ctx, cfg) >>]
    /\ UNCHANGED hbFrame

NextHeartbeat ==
    \/ MessageArrives
    \/ Classify

SpecHeartbeat == InitHeartbeat /\ [][NextHeartbeat]_vars

\* ------------------------------------------------- telemetry log: SpecStats

\* The kind of the n-th record call of the workload.
KindOf(n) == workload[(n % Len(workload)) + 1]

InitStats ==
    /\ Loaded({DefaultCfg})
    /\ hb = NoProbe
    /\ ids = NoProbe
    /\ workload \in [1..2 -> EventKinds]

\* export function recordEvent(type, details), called by the workload.
RecordEvent ==
    /\ nextId <= MAX_LOG_ENTRIES + ExtraRecords
    /\ recordEvents(<< Details(KindOf(nextId), << 1 >>, <<>>) >>)
    /\ UNCHANGED << cfg, now, lastCaptureTime, conversationCounters, slots,
                    invocations, lastAccepted, hb, ids, workload, auxVars >>

NextStats == RecordEvent

SpecStats == InitStats /\ [][NextStats]_vars

\* ------------------------------- persistence and dashboard: SpecDashboard

\* A JSON scalar as the configuration code meets it: a number, held in tenths
\* so that fractions exist, or a string that does not start with a number.
Tenths(v) == [t |-> "num", v |-> v]
Num(n) == Tenths(10 * n)
Text == [t |-> "str", v |-> 0]

\* parseInt(x, 10): the integer part of a number, cut towards zero; NaN (the
\* empty sequence) for the string.
ParseInt(x) ==
    IF x.t = "num"
    THEN << IF x.v >= 0 THEN x.v \div 10 ELSE 0 - ((0 - x.v) \div 10) >>
    ELSE <<>>

\* obj.k ?? def
OrElse(obj, k, def) == IF k \in DOMAIN obj THEN obj[k] ELSE def

\* { ...base, ...over }
Merge(base, over) ==
    [k \in DOMAIN base \cup DOMAIN over |->
        IF k \in DOMAIN over THEN over[k] ELSE base[k]]

\* buildConfig: cleanPort
cleanPort(p) ==
    LET n == ParseInt(p)
    IN IF n = <<>> \/ n[1] < 1 \/ n[1] > 65535 THEN Num(9898) ELSE Num(n[1])

\* buildConfig: cleanPosInt
cleanPosInt(v, def, max) ==
    LET n == ParseInt(v)
    IN IF n = <<>> \/ n[1] < 0 THEN Num(def) ELSE Num(Min(n[1], max))

\* The fields buildConfig sanitizes.
NumericFields ==
    { "dashboardPort", "memoryLimitNumber", "preferenceLimitNumber", "timeoutMs",
      "maxMessageChars" }

\* buildConfig(pluginConfig), its sanitized numeric fields.
buildConfig(pc) ==
    [ dashboardPort |-> cleanPort(OrElse(pc, "dashboardPort", Num(9898))),
      memoryLimitNumber |-> cleanPosInt(OrElse(pc, "memoryLimitNumber", Num(10)), 10, 100),
      preferenceLimitNumber |->
          cleanPosInt(OrElse(pc, "preferenceLimitNumber", Num(10)), 10, 100),
      timeoutMs |-> cleanPosInt(OrElse(pc, "timeoutMs", Num(5000)), 5000, 60000),
      maxMessageChars |->
          cleanPosInt(OrElse(pc, "maxMessageChars", Num(20000)), 20000, 1000000) ]

\* One check of validateConfig: the field is present and its parseInt is NaN
\* or outside lo..hi.
Rejects(config, k, lo, hi) ==
    /\ k \in DOMAIN config
    /\ LET n == ParseInt(config[k])
       IN n = <<>> \/ n[1] < lo \/ n[1] > hi

\* export function validateConfig(config): the errors, by field.
validateConfig(config) ==
    (IF Rejects(config, "dashboardPort", 1024, 65535) THEN << "dashboardPort" >> ELSE <<>>)
    \o (IF Rejects(config, "memoryLimitNumber", 0, 100)
        THEN << "memoryLimitNumber" >> ELSE <<>>)
    \o (IF Rejects(config, "timeoutMs", 500, 60000) THEN << "timeoutMs" >> ELSE <<>>)

\* writeState: JSON of { configOverrides, stats: { ...counters } }.
Snapshot(ov, c) == [configOverrides |-> ov, stats |-> c]

\* How a writeState may end: the temp file was written and renamed; that
\* failed and the direct write succeeded; both failed with the target left
\* alone; both failed with the target left truncated.
WriteOutcomes == {"renamed", "fallback", "failed", "torn"}

\* function writeState(): the state file afterwards.
writeState(file, ov, c, outcome) ==
    IF outcome \in {"renamed", "fallback"}
    THEN << [ok |-> TRUE, json |-> Snapshot(ov, c)] >>
    ELSE IF outcome = "torn" THEN << [ok |-> FALSE, json |-> Snapshot(EmptyObject, ZeroCounters)] >>
    ELSE file

\* A writeState whose fallback write is not guarded.
writeStateEndUnguarded(outcome) ==
    [ directWrites |-> IF outcome = "renamed" THEN 0 ELSE 1,
      threw |-> outcome \in {"failed", "torn"} ]

\* function writeState(): how the call ends. The direct write is tried once
\* when the temp-file write or the rename threw; its own failure is ignored
\* (catch { /* ignore */ }), so no exception leaves the function.
writeStateEnd(outcome) ==
    [ directWrites |-> IF outcome = "renamed" THEN 0 ELSE 1,
      threw |-> FALSE ]

\* function readState(): the parsed file, or null.
readState(file) ==
    IF file = NoFile THEN <<>>
    ELSE IF ~file[1].ok THEN <<>>
    ELSE << file[1].json >>

\* A restore that takes startedAt from the snapshot as well.
initStatsKeepsStart(c, ov, file, at) ==
    LET saved == readState(file)
    IN IF saved = <<>>
       THEN [counters |-> [c EXCEPT !.startedAt = << at >>], configOverrides |-> ov]
       ELSE [counters |-> saved[1].stats, configOverrides |-> saved[1].configOverrides]

\* export function initStats(): counters and overrides afterwards.
initStats(c, ov, file, at) ==
    LET saved == readState(file)
        c1 == IF saved = <<>> THEN c
              ELSE [c EXCEPT !.totalEvents = saved[1].stats.totalEvents,
                             !.heartbeatsFiltered = saved[1].stats.heartbeatsFiltered,
                             !.searchCalls = saved[1].stats.searchCalls,
                             !.addCalls = saved[1].stats.addCalls,
                             !.errors = saved[1].stats.errors]
    IN [ counters |-> [c1 EXCEPT !.startedAt = << at >>],
         configOverrides |-> IF saved = <<>> THEN ov ELSE saved[1].configOverrides ]

\* register(): cfg = { ...buildConfig(api.pluginConfig), ...getConfigOverrides() }
EffectiveCfg(pc, ov) == Merge(buildConfig(pc), ov)

\* The values posted for a field: one inside its range and others outside
\* it (too small, too large, a negative fraction, a string).
FieldValues(f) ==
    IF f = "dashboardPort" THEN { Num(2000), Num(50) }
    ELSE IF f = "memoryLimitNumber" THEN { Num(50), Tenths(-5), Num(5000000) }
    ELSE IF f = "preferenceLimitNumber" THEN { Num(50), Num(5000000) }
    ELSE IF f = "timeoutMs" THEN { Num(2000), Text }
    ELSE { Num(50), Num(5000000) }

\* The bodies posted to /api/config: one field each, an empty object, and a
\* body with a valid and an invalid field.
PostBodies ==
    UNION { { [k \in {f} |-> v] : v \in FieldValues(f) } : f \in NumericFields }
    \cup { EmptyObject }
    \cup { [k \in {"timeoutMs", "dashboardPort"} |->
               IF k = "timeoutMs" THEN Num(2000) ELSE Num(50)] }

\* The host's static configurations: none, every field in range, every field
\* out of range or no number.
StaticConfigs ==
    { EmptyObject,
      [k \in NumericFields |-> IF k \in {"dashboardPort", "timeoutMs"} THEN Num(2000)
                               ELSE Num(50)],
      [k \in NumericFields |-> IF k = "dashboardPort" THEN Num(5000000)
                               ELSE IF k = "timeoutMs" THEN Tenths(-5)
                               ELSE IF k = "memoryLimitNumber" THEN Text
                               ELSE Num(5000000)] }

Exchange(op, body, status) == [op |-> op, body |-> body, status |-> status]

InitDashboard ==
    /\ pluginConfig \in StaticConfigs
    /\ configOverrides = EmptyObject
    /\ stateFile = NoFile
    /\ exchange = Exchange("none", EmptyObject, 0)
    /\ fmt = NoProbe
    /\ turn = NoTurn
    /\ caller = NoCaller
    /\ cfg = EffectiveCfg(pluginConfig, EmptyObject)
    /\ now = StartTime
    /\ lastCaptureTime = 0
    /\ conversationCounters = [k \in {} |-> 0]
    /\ counters = [ZeroCounters EXCEPT !.startedAt = << StartTime >>]
    /\ logBuffer = <<>>
    /\ nextId = 1
    /\ slots = [i \in Slots |-> IdleSlot]
    /\ invocations = 0
    /\ lastAccepted = <<>>
    /\ hb = NoProbe
    /\ ids = NoProbe
    /\ workload = <<>>

dashFrame == << lastCaptureTime, conversationCounters, slots, invocations,
               lastAccepted, hb, ids, workload, pluginConfig, fmt, turn, caller >>

\* A handler records an event.
DashRecord ==
    /\ nextId <= MaxDashEvents
    /\ \E kind \in {"search", "add_error"} :
          recordEvents(<< Details(kind, << 1 >>, <<>>) >>)
    /\ UNCHANGED << cfg, now, configOverrides, stateFile, exchange, dashFrame >>

\* The persistence timer fires, or POST /api/stats/flush arrives.
Persist ==
    /\ \E outcome \in WriteOutcomes :
          /\ stateFile' = writeState(stateFile, configOverrides, counters, outcome)
          /\ exchange' = [ op |-> "persist", body |-> EmptyObject, status |-> 0,
                           outcome |-> outcome, end |-> writeStateEnd(outcome) ]
    /\ UNCHANGED << cfg, now, configOverrides, statsVars, dashFrame >>

\* POST /api/config with a JSON object as body.
ConfigPost(bodies) ==
    /\ \E body \in bodies :
          IF validateConfig(body) # <<>>
          THEN /\ exchange' = Exchange("post", body, 400)
               /\ UNCHANGED << configOverrides, stateFile >>
          ELSE /\ configOverrides' = body
               /\ \E outcome \in WriteOutcomes :
                     stateFile' = writeState(stateFile, body, counters, outcome)
               /\ exchange' = Exchange("post", body, 200)
    /\ UNCHANGED << cfg, now, statsVars, dashFrame >>

\* DELETE /api/config
ConfigDelete ==
    /\ configOverrides' = EmptyObject
    /\ \E outcome \in WriteOutcomes :
          stateFile' = writeState(stateFile, EmptyObject, counters, outcome)
    /\ exchange' = Exchange("delete", EmptyObject, 200)
    /\ UNCHANGED << cfg, now, statsVars, dashFrame >>

\* The process ends and a new one loads the module and calls register():
\* initStats restores from the state file and cfg is merged anew.
Restart ==
    /\ now < StartTime + MaxRestarts * TickMs
    /\ now' = now + TickMs
    /\ LET r == initStats(ZeroCounters, EmptyObject, stateFile, now')
       IN /\ counters' = r.counters
          /\ configOverrides' = r.configOverrides
          /\ cfg' = EffectiveCfg(pluginConfig, r.configOverrides)
    /\ logBuffer' = <<>>
    /\ nextId' = 1
    /\ exchange' = Exchange("restore", EmptyObject, 0)
    /\ UNCHANGED << stateFile, dashFrame >>

\* The dashboard's configuration endpoints, over restarts.
NextDashboard ==
    \/ ConfigPost(PostBodies)
    \/ ConfigDelete
    \/ Restart

SpecDashboard == InitDashboard /\ [][NextDashboard]_vars

\* Telemetry, persistence and restore, with two valid override bodies.
PersistBodies ==
    { [k \in {"timeoutMs"} |-> Num(2000)], [k \in {"maxMessageChars"} |-> Num(50)] }

NextPersist ==
    \/ DashRecord
    \/ Persist
    \/ ConfigPost(PersistBodies)
    \/ Restart

SpecPersist == InitDashboard /\ [][NextPersist]_vars

\* The host calls register() again in the running process: initStats reads
\* the state file into the module's counters and overrides, which keep what
\* the process has counted and buffered, and cfg is merged anew.
RegisterAgain ==
    /\ now < StartTime + MaxRestarts * TickMs
    /\ now' = now + TickMs
    /\ LET r == initStats(counters, configOverrides, stateFile, now')
       IN /\ counters' = r.counters
          /\ configOverrides' = r.configOverrides
          /\ cfg' = EffectiveCfg(pluginConfig, r.configOverrides)
    /\ exchange' = Exchange("register", EmptyObject, 0)
    /\ UNCHANGED << logBuffer, nextId, stateFile, dashFrame >>

\* ------------------------------------------------ prompt assembly: SpecPrompt

Nl == <<"\n">>

\* Array.prototype.join("\n") of a sequence of texts.
RECURSIVE JoinNl(_)
JoinNl(ts) ==
    IF ts = <<>> THEN <<>>
    ELSE IF Len(ts) = 1 THEN ts[1]
    ELSE ts[1] \o Nl \o JoinNl(Tail(ts))

RECURSIVE TrimEnd(_)
TrimEnd(t) ==
    IF t # <<>> /\ t[Len(t)] \in Whitespace THEN TrimEnd(SubSeq(t, 1, Len(t) - 1)) ELSE t

\* String.prototype.trim
Trim(t) == TrimEnd(TrimStart(t))

RECURSIVE DropLeadingNewlines(_)
DropLeadingNewlines(t) ==
    IF t # <<>> /\ Head(t) = "\n" THEN DropLeadingNewlines(Tail(t)) ELSE t

\* text.replace(/\r?\n+/g, " ")
RECURSIVE NewlinesToSpace(_)
NewlinesToSpace(t) ==
    IF t = <<>> THEN <<>>
    ELSE IF Head(t) = "\n" THEN <<" ">> \o NewlinesToSpace(DropLeadingNewlines(t))
    ELSE << Head(t) >> \o NewlinesToSpace(Tail(t))

\* function sanitizeInlineText(text)
sanitizeInlineText(text) == Trim(NewlinesToSpace(text))

\* function truncate(text, maxLen) of memos-cloud-api.js; maxLen is
\* options.maxItemChars, undefined (<<>>) when the caller sets none.
truncateItem(text, maxLen) ==
    IF text = <<>> THEN <<>>
    ELSE IF maxLen # <<>> /\ Len(text) > maxLen[1]
    THEN SliceTo(text, maxLen[1]) \o <<".", ".", ".">>
    ELSE text

\* function formatTime(value): "" for no value, a date text for a number.
formatTime(value) == IF value = <<>> THEN <<>> ELSE << "2026-01-01 00:00" >>

\* function normalizePreferenceType(value), for no type and the two known ones.
normalizePreferenceType(value) ==
    IF value = "" THEN <<>>
    ELSE IF value = "explicit" THEN << "Explicit Preference" >>
    ELSE << "Implicit Preference" >>

\* function formatMemoryLine(item, text, options)
formatMemoryLine(item, text, options) ==
    LET cleaned == sanitizeInlineText(text)
        truncated == truncateItem(cleaned, options.maxItemChars)
        time == formatTime(item.create_time)
    IN IF cleaned = <<>> THEN <<>>
       ELSE IF time # <<>> THEN <<"   -[">> \o time \o <<"] ">> \o truncated
       ELSE <<"   - ">> \o truncated

\* function formatPreferenceLine(item, text, options)
formatPreferenceLine(item, text, options) ==
    LET cleaned == sanitizeInlineText(text)
        truncated == truncateItem(cleaned, options.maxItemChars)
        time == formatTime(item.create_time)
        type == normalizePreferenceType(item.preference_type)
        typeLabel == IF type # <<>> THEN <<" [">> \o type \o <<"]">> ELSE <<>>
    IN IF cleaned = <<>> THEN <<>>
       ELSE IF time # <<>> THEN <<"   -[">> \o time \o <<"]">> \o typeLabel \o <<" ">> \o truncated
       ELSE <<"   -">> \o typeLabel \o <<" ">> \o truncated

\* function wrapCodeBlock(lines, options); "~~~" stands for the code fence.
wrapCodeBlock(lines, options) ==
    IF ~options.wrapTagBlocks THEN lines
    ELSE << <<"~~~text">> >> \o lines \o << <<"~~~">> >>

\* function buildMemoriesBlock(memoryLines, preferenceLines, options)
buildMemoriesBlock(memoryLines, preferenceLines, options) ==
    JoinNl(wrapCodeBlock(
        << <<"<memories>">>, <<"  <facts>">> >> \o memoryLines
        \o << <<"  </facts>">>, <<"  <preferences>">> >> \o preferenceLines
        \o << <<"  </preferences>">>, <<"</memories>">> >>, options))

\* function buildDefaultPrompt(nowText, memoriesBlockStr); each fixed passage
\* is one token.
buildDefaultPrompt(nowText, memoriesBlockStr) ==
    JoinNl(<< <<"# Role ...">>,
              <<"* Current Time: ">> \o nowText \o <<" (...)">>,
              <<"# Memory Data ...">>,
              memoriesBlockStr,
              <<"# Critical Protocol ... # Instructions ...">>,
              USER_QUERY_MARKER >>)

\* function buildCompactPrompt(nowText, memoriesBlockStr)
buildCompactPrompt(nowText, memoriesBlockStr) ==
    JoinNl(<< <<"You have long-term memory ...">>,
              <<"Current Time: ">> \o nowText,
              memoriesBlockStr,
              <<"Guidelines: ...">>,
              USER_QUERY_MARKER >>)

\* text.replace(/\{name\}/g, sub), a placeholder being one token of the text.
RECURSIVE ReplaceAll(_, _, _)
ReplaceAll(t, placeholder, sub) ==
    IF t = <<>> THEN <<>>
    ELSE (IF Head(t) = placeholder THEN sub ELSE << Head(t) >>)
         \o ReplaceAll(Tail(t), placeholder, sub)

\* function buildCustomPrompt(template, nowText, memoriesBlockStr)
buildCustomPrompt(template, nowText, memoriesBlockStr) ==
    LET prompt ==
            ReplaceAll(ReplaceAll(ReplaceAll(template, "{memories}", memoriesBlockStr),
                                  "{currentTime}", nowText),
                       "{userQueryMarker}", USER_QUERY_MARKER)
    IN IF ~Includes(prompt, USER_QUERY_MARKER) THEN prompt \o Nl \o USER_QUERY_MARKER
       ELSE prompt

\* A list member of the response data: absent, an array of records, or a
\* value that is no array.
NoList == [t |-> "absent", items |-> <<>>]
ListOf(records) == [t |-> "arr", items |-> records]
BadList == [t |-> "bad", items |-> <<>>]

Fact(value, key, time) == [memory_value |-> value, memory_key |-> key, create_time |-> time]
Pref(text, type) == [preference |-> text, preference_type |-> type, create_time |-> <<>>]

\* A parsed response: null, an object without data, with a scalar as data,
\* or with an object as data.
NullResult == [t |-> "null", data |-> <<>>]
NoData == [t |-> "obj", data |-> <<>>]
ScalarData == [t |-> "obj", data |-> << [t |-> "scalar", memory_detail_list |-> NoList,
                                         preference_detail_list |-> NoList] >>]
DataOf(memories, preferences) ==
    [t |-> "obj", data |-> << [t |-> "obj", memory_detail_list |-> memories,
                               preference_detail_list |-> preferences] >>]

\* function extractResultData(result): the data, or null.
extractResultData(result) == IF result.t = "null" THEN <<>> ELSE result.data

\* item?.memory_value || item?.memory_key || ""
FactText(item) == IF item.memory_value # <<>> THEN item.memory_value ELSE item.memory_key

\* list.map(format).filter(Boolean)
RECURSIVE MemoryLines(_, _)
MemoryLines(items, options) ==
    IF items = <<>> THEN <<>>
    ELSE LET line == formatMemoryLine(Head(items), FactText(Head(items)), options)
         IN (IF line = <<>> THEN <<>> ELSE << line >>) \o MemoryLines(Tail(items), options)

RECURSIVE PreferenceLines(_, _)
PreferenceLines(items, options) ==
    IF items = <<>> THEN <<>>
    ELSE LET line == formatPreferenceLine(Head(items), Head(items).preference, options)
         IN (IF line = <<>> THEN <<>> ELSE << line >>) \o PreferenceLines(Tail(items), options)

Rendered(block) == [out |-> "text", block |-> block]
Thrown == [out |-> "throws", block |-> <<>>]

\* function buildPromptFromData(data, options): the text returned, or the
\* TypeError of calling .map on a member that is no array.
buildPromptFromData(data, options) ==
    IF data.memory_detail_list.t = "bad" \/ data.preference_detail_list.t = "bad"
    THEN Thrown
    ELSE LET nowText == formatTime(<< now >>)
             memoryLines == MemoryLines(data.memory_detail_list.items, options)
             preferenceLines == PreferenceLines(data.preference_detail_list.items, options)
             memoriesBlockStr == buildMemoriesBlock(memoryLines, preferenceLines, options)
         IN IF memoryLines = <<>> /\ preferenceLines = <<>> THEN Rendered(<<>>)
            ELSE IF options.promptTemplate # <<>>
            THEN Rendered(buildCustomPrompt(options.promptTemplate, nowText, memoriesBlockStr))
            ELSE IF options.promptStyle = "compact"
            THEN Rendered(buildCompactPrompt(nowText, memoriesBlockStr))
            ELSE Rendered(buildDefaultPrompt(nowText, memoriesBlockStr))

\* export function formatPromptBlock(result, options)
formatPromptBlock(result, options) ==
    LET data == extractResultData(result)
    IN IF data = <<>> THEN Rendered(<<>>)
       ELSE buildPromptFromData(data[1], options)

\* before_agent_start: the options it hands to formatPromptBlock.
OptionsOf(style, template) ==
    [wrapTagBlocks |-> TRUE, promptStyle |-> style, promptTemplate |-> template,
     maxItemChars |-> <<>>]

\* Custom templates: the three placeholders in order; no placeholder at all;
\* the marker before the memories; text after the marker; no marker.
PromptTemplates ==
    { << "{currentTime}", "\n", "{memories}", "\n", "{userQueryMarker}" >>,
      << "H", "i" >>,
      << "{userQueryMarker}", "\n", "{memories}" >>,
      << "{memories}", "{userQueryMarker}", "!" >>,
      << "{memories}", " ", "?" >> }

PromptOptions ==
    { OptionsOf("default", <<>>), OptionsOf("compact", <<>>) }
    \cup { OptionsOf("default", t) : t \in PromptTemplates }

PromptResults ==
    { NullResult, NoData, ScalarData,
      DataOf(ListOf(<<>>), ListOf(<<>>)),
      DataOf(ListOf(<< Fact(<<"a", "b">>, <<>>, <<>>) >>), NoList),
      DataOf(ListOf(<< Fact(<<" ", "\n">>, <<>>, <<>>),
                       Fact(<<"a", "\n", "\n", "b">>, <<>>, << 1 >>) >>),
             ListOf(<< Pref(<<"p">>, "explicit") >>)),
      DataOf(NoList, ListOf(<< Pref(<<"p">>, "") >>)),
      DataOf(ListOf(<< Fact(<<>>, <<"k">>, <<>>) >>), ListOf(<< Pref(<<" ">>, "implicit") >>)),
      DataOf(ListOf(<< Fact(<<>>, <<>>, <<>>) >>), ListOf(<< Pref(<<"\n">>, "") >>)),
      DataOf(BadList, NoList),
      DataOf(ListOf(<< Fact(<<"a", "b">>, <<>>, <<>>) >>), BadList) }

\* What the user typed: a word, a word after line feeds, a longer text, a
\* text that holds the marker token itself, and nothing.
UserQueries ==
    { <<"q">>, <<"\n", "\n", "q">>, <<"q", "r", "s", "t">>, <<"a", "M", "b">>, <<>> }

PromptCfgs == { [DefaultCfg EXCEPT !.maxMessageChars = m] : m \in {2, 20000} }

InitPrompt ==
    /\ Loaded(PromptCfgs)
    /\ hb = NoProbe
    /\ ids = NoProbe
    /\ workload = <<>>

promptFrame == << cfg, now, lastCaptureTime, conversationCounters, statsVars, slots,
                 invocations, lastAccepted, hb, ids, workload, diskVars, turn, caller >>

\* A search returns: before_agent_start formats the result.
Format ==
    /\ ~fmt.used
    /\ \E result \in PromptResults, options \in PromptOptions, q \in UserQueries :
          LET r == formatPromptBlock(result, options)
          IN fmt' = [used |-> TRUE, stage |-> "formatted", result |-> result,
                     options |-> options, q |-> q, out |-> r.out, block |-> r.block,
                     content |-> <<>>, captured |-> <<>>]
    /\ UNCHANGED promptFrame

\* The host prepends the returned block to what the user typed.
Inject ==
    /\ fmt.used /\ fmt.stage = "formatted"
    /\ fmt' = [fmt EXCEPT !.stage = "injected", !.content = fmt.block \o fmt.q]
    /\ UNCHANGED promptFrame

\* agent_end selects the messages to capture from the turn.
Capture ==
    /\ fmt.used /\ fmt.stage = "injected"
    /\ fmt' = [fmt EXCEPT !.stage = "captured",
                          !.captured = SelectMessages(
                              << Msg("user", StrContent(fmt.content)) >>, cfg)]
    /\ UNCHANGED promptFrame

NextPrompt ==
    \/ Format
    \/ Inject
    \/ Capture

SpecPrompt == InitPrompt /\ [][NextPrompt]_vars

\* ---------------------------------------------- capture selection: SpecCapture

\* The messages a host may hand to agent_end: user input plain, behind an
\* injected prompt, and nothing but an injected prompt; assistant replies as
\* a string, as content blocks, and empty; a tool message; a message without
\* a role.
TurnMessages ==
    { Msg("user", StrContent(<<"h", "i">>)),
      Msg("user", StrContent(<<"p", "M", " ", "a", "b", "c", "d">>)),
      Msg("user", StrContent(<<"p", "M">>)),
      Msg("assistant", StrContent(<<"o", "k", "a", "y">>)),
      Msg("assistant", ArrContent(<< TextBlock(<<"y">>), ImageBlock >>)),
      Msg("assistant", NullContent),
      Msg("tool", StrContent(<<"t">>)),
      Msg("", StrContent(<<"x">>)) }

SelectionCfgs ==
    { [DefaultCfg EXCEPT !.captureStrategy = s, !.includeAssistant = a,
                         !.maxMessageChars = m] :
        s \in {"last_turn", "full_session"}, a \in BOOLEAN, m \in {0, 2, 20000} }

InitCapture ==
    /\ Loaded(SelectionCfgs)
    /\ hb = NoProbe
    /\ ids = NoProbe
    /\ workload = <<>>

captureFrame == << cfg, now, lastCaptureTime, conversationCounters, statsVars, slots,
                  invocations, lastAccepted, hb, ids, workload, diskVars, fmt, caller >>

\* The session grows by one message before the agent ends.
MessageAppended ==
    /\ turn.stage = "open"
    /\ Len(turn.messages) < MaxTurnMessages
    /\ \E m \in TurnMessages : turn' = [turn EXCEPT !.messages = Append(@, m)]
    /\ UNCHANGED captureFrame

\* agent_end picks the messages to capture by cfg.captureStrategy.
SelectForCapture ==
    /\ turn.stage = "open"
    /\ turn' = [turn EXCEPT !.stage = "selected",
                            !.captured = SelectMessages(turn.messages, cfg)]
    /\ UNCHANGED captureFrame

NextCapture ==
    \/ MessageAppended
    \/ SelectForCapture

SpecCapture == InitCapture /\ [][NextCapture]_vars

\* ------------------------------------------------- read accessors: SpecAccessors

\* e.type.includes("error")
IsErrorType(type) == type \in {"error", "search_error", "add_error"}

\* getLogs: logs.filter(...) by typeFilter; any other filter keeps all.
FilterLogs(buf, typeFilter) ==
    IF typeFilter = "heartbeat"
    THEN SelectSeq(buf, LAMBDA e : e.type = "heartbeat_filtered")
    ELSE IF typeFilter = "error" THEN SelectSeq(buf, LAMBDA e : IsErrorType(e.type))
    ELSE IF typeFilter = "normal"
    THEN SelectSeq(buf, LAMBDA e : e.type # "heartbeat_filtered" /\ ~IsErrorType(e.type))
    ELSE buf

\* Array.prototype.slice(start): a negative start counts from the end, -0 is
\* 0, a start past the end gives the empty array.
SliceArray(arr, start) ==
    LET from == IF start < 0 THEN Max(Len(arr) + start, 0) ELSE Min(start, Len(arr))
    IN SubSeq(arr, from + 1, Len(arr))

\* Array.prototype.reverse
Reverse(arr) == [i \in 1..Len(arr) |-> arr[Len(arr) + 1 - i]]

\* export function getLogs(typeFilter, limit): a new array that holds the
\* buffer's own entry objects.
getLogs(buf, typeFilter, limit) == Reverse(SliceArray(FilterLogs(buf, typeFilter), 0 - limit))

\* export function getStats(): { ...counters }
getStats(c) == c

\* export function getConfigOverrides(): { ...configOverrides }, a new object
\* whose members are the stored members themselves.
getConfigOverrides(ov) == ov

\* An override member that is an array: a reference into the heap.
ArrayRef(ref) == [t |-> "ref", v |-> ref]

\* The overrides with every array member replaced by its content.
Contents(ov, heap) ==
    [k \in DOMAIN ov |-> IF ov[k].t = "ref" THEN heap[ov[k].v] ELSE ov[k]]

accessorFrame == << cfg, now, lastCaptureTime, conversationCounters, slots, invocations,
                   lastAccepted, hb, ids, workload, pluginConfig, fmt, turn >>

\* POST /api/config with a body that has an array member, {"tags": ["a"]}:
\* JSON.parse allocates the array and setConfigOverrides stores the body's
\* members.
ConfigPostArray ==
    /\ Len(caller.heap) < MaxArrays
    /\ LET body == [k \in {"tags"} |-> ArrayRef(Len(caller.heap) + 1)]
       IN /\ validateConfig(body) = <<>>
          /\ configOverrides' = body
          /\ caller' = [caller EXCEPT !.heap = Append(@, <<"a">>)]
          /\ \E outcome \in {"renamed", "failed"} :
                stateFile' = writeState(stateFile, body, counters, outcome)
          /\ exchange' = Exchange("post", body, 200)
    /\ UNCHANGED << statsVars, accessorFrame >>

\* A handler records an event, of any kind.
AccessorRecord ==
    /\ nextId <= MaxDashEvents
    /\ \E kind \in {"search", "add_error", "heartbeat_filtered"} :
          recordEvents(<< Details(kind, << 1 >>, <<>>) >>)
    /\ UNCHANGED << configOverrides, stateFile, exchange, caller, accessorFrame >>

GetStats ==
    /\ caller' = [caller EXCEPT !.kind = "stats", !.held = getStats(counters)]
    /\ UNCHANGED << statsVars, diskVars, accessorFrame >>

GetLogs ==
    /\ \E typeFilter \in {"all", "error"}, limit \in {1, 50} :
          caller' = [caller EXCEPT !.kind = "logs",
                                   !.held = getLogs(logBuffer, typeFilter, limit),
                                   !.filter = typeFilter, !.limit = << limit >>]
    /\ UNCHANGED << statsVars, diskVars, accessorFrame >>

\* The limit parameter of a GET /api/logs request: absent (or empty), or the
\* text of a number ("0", "-1", "1", "2"), or a text that is no number.
LimitParams == { <<>>, << Num(0) >>, << Num(-1) >>, << Num(1) >>, << Num(2) >>, << Text >> }

\* parseInt(url.searchParams.get("limit") || "50", 10): NaN is the empty
\* sequence.
LogsLimit(param) == ParseInt(IF param = <<>> THEN Num(50) ELSE param[1])

\* url.searchParams.get("type") || "all"
LogsType(param) == IF param = <<>> THEN "all" ELSE param[1]

\* getLogs with the limit the endpoint computed: slice(-NaN) is slice(0).
getLogsParsed(buf, typeFilter, limit) ==
    IF limit = <<>> THEN Reverse(SliceArray(FilterLogs(buf, typeFilter), 0))
    ELSE getLogs(buf, typeFilter, limit[1])

\* GET /api/logs?type=...&limit=...
GetLogsEndpoint ==
    /\ \E typeParam \in { <<>>, << "error" >> }, limitParam \in LimitParams :
          LET type == LogsType(typeParam)
              limit == LogsLimit(limitParam)
          IN caller' = [caller EXCEPT !.kind = "logs",
                                      !.held = getLogsParsed(logBuffer, type, limit),
                                      !.filter = type, !.limit = limit]
    /\ UNCHANGED << statsVars, diskVars, accessorFrame >>

GetConfigOverrides ==
    /\ caller' = [caller EXCEPT !.kind = "overrides",
                                !.held = getConfigOverrides(configOverrides)]
    /\ UNCHANGED << statsVars, diskVars, accessorFrame >>

\* The caller writes to the value it holds itself: a counter of the stats
\* copy, the array of logs (pop), a member of the overrides copy.
CallerWritesTop ==
    /\ caller.writes < MaxCallerWrites
    /\ \/ /\ caller.kind = "stats"
          /\ caller' = [caller EXCEPT !.held.totalEvents = 99, !.writes = @ + 1]
       \/ /\ caller.kind = "logs" /\ caller.held # <<>>
          /\ caller' = [caller EXCEPT !.held = Tail(@), !.writes = @ + 1]
       \/ /\ caller.kind = "overrides"
          /\ caller' = [caller EXCEPT
                          !.held = Merge(@, [k \in {"timeoutMs"} |-> Num(1)]),
                          !.writes = @ + 1]
    /\ UNCHANGED << statsVars, diskVars, accessorFrame >>

\* The caller writes to an object it reached through the value it holds: an
\* entry of the logs array (entry.type = "edited"), which is the buffer's
\* entry of that id, or an array member of the overrides (push), which is the
\* stored array.
CallerWritesNested ==
    /\ caller.writes < MaxCallerWrites
    /\ \/ /\ caller.kind = "logs"
          /\ \E i \in 1..Len(caller.held) :
                /\ caller' = [caller EXCEPT !.held[i].type = "edited", !.writes = @ + 1]
                /\ logBuffer' = [j \in 1..Len(logBuffer) |->
                                    IF logBuffer[j].id = caller.held[i].id
                                    THEN [logBuffer[j] EXCEPT !.type = "edited"]
                                    ELSE logBuffer[j]]
       \/ /\ caller.kind = "overrides"
          /\ \E k \in DOMAIN caller.held :
                /\ caller.held[k].t = "ref"
                /\ caller' = [caller EXCEPT !.heap[caller.held[k].v] = Append(@, "x"),
                                            !.writes = @ + 1]
          /\ UNCHANGED logBuffer
    /\ UNCHANGED << counters, nextId, diskVars, accessorFrame >>

NextAccessors ==
    \/ ConfigPostArray
    \/ AccessorRecord
    \/ GetStats
    \/ GetLogs
    \/ GetLogsEndpoint
    \/ GetConfigOverrides
    \/ CallerWritesTop
    \/ CallerWritesNested

SpecAccessors == InitDashboard /\ [][NextAccessors]_vars

\* One process lifetime: record, persist, override set and clear, the
\* counter accessor, and register() called again.
NextRegister ==
    \/ DashRecord
    \/ Persist
    \/ ConfigPost(PersistBodies)
    \/ ConfigDelete
    \/ GetStats
    \/ RegisterAgain

SpecRegister == InitDashboard /\ [][NextRegister]_vars

\* ------------------------------------------------------------------ claims

IsHandler(s) == s.kind \in {"recall", "capture"}

\* The kind of the error event a handler records for a failure.
ErrorKindOf(s) == IF s.kind = "recall" THEN "search_error" ELSE "add_error"

LastLogged == logBuffer[Len(logBuffer)]

\* C1: with a credential and a retry budget r >= 0, callApi never makes more
\* than r+1 attempts, and when it fails (every attempt failed) it has made
\* exactly r+1.
C1_AttemptsOnFailure ==
    \A i \in Slots :
        LET c == slots[i].call
        IN (c.st # "none" /\ c.apiKey # "" /\ c.retries >= 0) =>
              /\ c.attempts <= c.retries + 1
              /\ (c.st = "threw" => c.attempts = c.retries + 1)

C1_Witness ==
    \E i \in Slots :
        /\ slots[i].call.st = "threw"
        /\ slots[i].call.apiKey # ""
        /\ slots[i].call.retries = 2
        /\ slots[i].call.attempts = 3

\* C2: no exception leaves the turn-start or the turn-end handler; when the
\* remote call has failed the handler returns nothing to the host and has
\* recorded exactly one event, of kind search_error or add_error, carrying
\* the call's error.
C2_FailuresStayInside ==
    \A i \in Slots :
        LET s == slots[i]
        IN IsHandler(s) =>
              /\ s.out # "threw"
              /\ (s.call.st = "threw" =>
                    /\ s.pc = "done"
                    /\ s.out = "returned"
                    /\ s.ret = "undefined"
                    /\ s.recorded = << ErrorKindOf(s) >>
                    /\ Len(logBuffer) > 0
                    /\ LastLogged.type = ErrorKindOf(s)
                    /\ LastLogged.error = << s.call.lastError >>)

C2_Witness ==
    \E i \in Slots :
        /\ slots[i].kind = "recall"
        /\ slots[i].call.st = "threw"
        /\ slots[i].call.lastError = "timeout"
        /\ slots[i].call.attempts = 2
        /\ counters.errors = 1

\* C3: without a credential callApi throws the missing-credential error
\* before any attempt, whatever retries and timeoutMs are, and the two
\* handlers return without calling it and without throwing.
C3_MissingCredential ==
    \A i \in Slots :
        LET s == slots[i]
        IN /\ (s.call.st # "none" /\ s.call.apiKey = "") =>
                 /\ s.call.st = "threw"
                 /\ s.call.lastError = "MissingCredential"
                 /\ s.call.attempts = 0
           /\ (IsHandler(s) /\ cfg.apiKey = "") =>
                 /\ s.pc = "done"
                 /\ s.out = "returned"
                 /\ s.call.st = "none"
                 /\ s.call.attempts = 0

C3_Witness ==
    \E i \in Slots :
        /\ slots[i].kind = "direct"
        /\ slots[i].call.apiKey = ""
        /\ slots[i].call.retries = 2
        /\ slots[i].call.timeoutMs = 0
        /\ slots[i].out = "threw"
        /\ slots[i].err = "MissingCredential"

\* C8: a turn classified as a heartbeat makes no search and no add call,
\* leaves the last-capture timestamp as it was, returns nothing and records
\* exactly one heartbeat_filtered event; with heartbeat filtering disabled no
\* turn is classified as a heartbeat.
C8_HeartbeatBypass ==
    \A i \in Slots :
        LET s == slots[i]
        IN IsHandler(s) =>
              /\ isHeartbeatEvent(s.ev, s.ctx, cfg) =>
                    /\ s.pc = "done"
                    /\ s.path = "heartbeat"
                    /\ s.call.st = "none"
                    /\ s.call.attempts = 0
                    /\ ~s.setCapture
                    /\ lastCaptureTime = s.lctBefore
                    /\ s.out = "returned"
                    /\ s.ret = "undefined"
                    /\ s.recorded = << "heartbeat_filtered" >>
                    /\ Len(logBuffer) > 0
                    /\ LastLogged.type = "heartbeat_filtered"
              /\ ~cfg.ignoreHeartbeats =>
                    /\ s.path # "heartbeat"
                    /\ counters.heartbeatsFiltered = 0

C8_Witness ==
    \E i \in Slots :
        /\ slots[i].kind = "capture"
        /\ slots[i].ev = EvHeartbeat
        /\ slots[i].path = "heartbeat"
        /\ cfg.apiKey # ""
        /\ counters.heartbeatsFiltered = 1

\* C9: with throttleMs > 0, a turn-end event that arrives less than
\* throttleMs after the last capture attempt that passed the throttle, of
\* whatever session, makes no add call and does not move the timestamp.
C9_ThrottleProcessWide ==
    \A i \in Slots :
        LET s == slots[i]
        IN ( /\ s.kind = "capture"
             /\ cfg.throttleMs > 0
             /\ s.prevAccepted # <<>>
             /\ s.arrivedAt - s.prevAccepted[1].at < cfg.throttleMs )
           => /\ s.path = "throttled"
              /\ s.call.st = "none"
              /\ s.call.attempts = 0
              /\ ~s.setCapture

\* A turn-end event of another session is suppressed while the accepted
\* capture is still awaiting its call.
C9_Witness ==
    \E i, j \in Slots :
        /\ i # j
        /\ slots[j].kind = "capture" /\ slots[j].pc = "await"
        /\ slots[i].path = "throttled"
        /\ slots[i].prevAccepted # <<>>
        /\ slots[i].prevAccepted[1].sessionKey # slots[i].ctx.sessionKey
        /\ slots[i].prevAccepted[1].at = slots[j].arrivedAt

\* The dynamic suffix after k new-conversation signals.
SuffixAfter(k) == IF k = 0 THEN "" ELSE "#" \o ToString(k)

\* C4: two calls of resolveConversationId with the same config and context
\* and the same counters return the same id.
C4_Deterministic ==
    (ids.last # <<>> /\ ids.prev # <<>>
        /\ ids.last[1].ctx = ids.prev[1].ctx
        /\ ids.last[1].counters = ids.prev[1].counters)
    => ids.last[1].id = ids.prev[1].id

\* C5: in suffix mode "counter" with no pinned id, the id resolved for a
\* context with session key s is prefix + s + suffix while no new-conversation
\* signal for s has reached the command:new hook, and prefix + s + "#k" +
\* suffix once k of them have.
C5_CounterSuffix ==
    (ids.last # <<>>
        /\ cfg.conversationId = ""
        /\ cfg.conversationSuffixMode = "counter"
        /\ ids.last[1].ctx.sessionKey # "")
    => LET r == ids.last[1]
       IN r.id = cfg.conversationIdPrefix \o r.ctx.sessionKey
                    \o SuffixAfter(r.signals[r.ctx.sessionKey])
                    \o cfg.conversationIdSuffix

C5_Witness ==
    /\ ids.last # <<>> /\ ids.prev # <<>>
    /\ cfg.conversationId = ""
    /\ ids.prev[1].id = "p:s1#1:x"
    /\ ids.last[1].id = "p:s1#2:x"
    /\ ids.last[1].signals["s1"] = 2

\* C6: with a pinned conversation id the resolver returns exactly that id,
\* whatever the context, the prefix, the suffix, the suffix mode and the
\* counters are.
C6_PinnedId ==
    (ids.last # <<>> /\ cfg.conversationId # "")
    => ids.last[1].id = cfg.conversationId

C6_Witness ==
    /\ ids.last # <<>>
    /\ cfg.conversationId = "pinned"
    /\ cfg.conversationIdPrefix = "p:"
    /\ cfg.conversationSuffixMode = "counter"
    /\ ids.last[1].ctx.sessionKey = "s1"
    /\ CounterOf(conversationCounters, "s1") = 2
    /\ ids.last[1].counters = conversationCounters
    /\ ids.last[1].id = "pinned"

\* The text of a message as a reader of the conversation sees it.
TextOfMsg(m) ==
    IF m.content.t = "str" THEN m.content.s
    ELSE IF m.content.t = "arr" THEN JoinSpace(BlockTexts(m.content.b))
    ELSE <<>>

MentionsKeyword(m) == SomeKeywordIn(KeywordsOf(cfg), TextOfMsg(m))

\* The user messages of the classified history, in order.
UserMessages == SelectSeq(hb.event.messages, IsUserMsg)

FinalUserMentions ==
    Len(UserMessages) > 0 /\ MentionsKeyword(UserMessages[Len(UserMessages)])

EarlierUserMentions ==
    \E i \in 1..(Len(UserMessages) - 1) : MentionsKeyword(UserMessages[i])

\* C7: with filtering enabled and no other heartbeat signal (no explicit
\* property, no keyword in the prompt), an event whose final user message
\* holds a heartbeat keyword is classified as a heartbeat, and an event where
\* a keyword occurs in an earlier user message but not in the final user
\* message is not.
C7_FinalUserMessageOnly ==
    (hb.used /\ hb.verdict # <<>> /\ cfg.ignoreHeartbeats
        /\ ~ExplicitHeartbeat(hb.event, hb.ctx)
        /\ ~SomeKeywordIn(KeywordsOf(cfg), hb.event.prompt))
    => /\ FinalUserMentions => hb.verdict[1]
       /\ (EarlierUserMentions /\ ~FinalUserMentions) => ~hb.verdict[1]

C7_Witness ==
    /\ hb.used /\ hb.verdict = << FALSE >> /\ cfg.ignoreHeartbeats
    /\ ~ExplicitHeartbeat(hb.event, hb.ctx)
    /\ hb.event.prompt = <<>>
    /\ hb.event.messages = << Msg("user", StrContent(KeywordText)),
                              Msg("assistant", StrContent(KeywordText)),
                              Msg("user", StrContent(PlainText)) >>

\* C10: the in-memory log buffer never holds more than MAX_LOG_ENTRIES (200)
\* entries, however many events are recorded.
C10_RingBufferBounded == Len(logBuffer) <= MAX_LOG_ENTRIES

C10_Witness ==
    /\ workload # <<>>
    /\ nextId = MAX_LOG_ENTRIES + 3
    /\ Len(logBuffer) = MAX_LOG_ENTRIES
    /\ logBuffer[1].id = 3
    /\ logBuffer[MAX_LOG_ENTRIES].id = MAX_LOG_ENTRIES + 2

\* The kinds recordEvent is declared to take (its @param type).
DocumentedKinds ==
    { "heartbeat_filtered", "search", "add", "error", "search_error", "add_error" }

\* The number of record calls made so far.
Recorded == nextId - 1

\* C11: after n record calls the buffer holds exactly the most recent
\* min(n, 200) entries, oldest first: their ids are consecutive and end at n,
\* and each entry is the one that was recorded under its id.
C11_FifoEviction ==
    workload # <<>> =>
        /\ Len(logBuffer) = Min(Recorded, MAX_LOG_ENTRIES)
        /\ \A k \in 1..Len(logBuffer) :
              /\ logBuffer[k].id = Recorded - Len(logBuffer) + k
              /\ logBuffer[k].type = KindOf(logBuffer[k].id)

C11_Witness ==
    /\ workload # <<>> /\ workload[1] # workload[2]
    /\ Recorded = MAX_LOG_ENTRIES + 1
    /\ Len(logBuffer) = MAX_LOG_ENTRIES
    /\ logBuffer[1].id = 2
    /\ logBuffer[1].type = KindOf(2)

CategorySum(c) == c.heartbeatsFiltered + c.searchCalls + c.addCalls + c.errors

CategoryFields == {"heartbeatsFiltered", "searchCalls", "addCalls", "errors"}

\* C12: every record call with one of the kinds recordEvent is declared to
\* take adds one to totalEvents and one to exactly one of heartbeatsFiltered,
\* searchCalls, addCalls and errors, leaving the other three alone; and while
\* only such kinds are recorded, totalEvents is the sum of the four.
C12_CountersAddUp ==
    /\ []((workload # <<>> /\ \A k \in 1..Len(workload) : workload[k] \in DocumentedKinds)
            => counters.totalEvents = CategorySum(counters))
    /\ [][(workload # <<>> /\ nextId' = nextId + 1 /\ KindOf(nextId) \in DocumentedKinds)
            => /\ counters'.totalEvents = counters.totalEvents + 1
               /\ \E f \in CategoryFields :
                     /\ counters'[f] = counters[f] + 1
                     /\ \A g \in CategoryFields \ {f} : counters'[g] = counters[g]]_vars

C12_Witness ==
    /\ workload = [k \in 1..2 |-> IF k = 1 THEN "search_error" ELSE "heartbeat_filtered"]
    /\ counters.totalEvents = 5
    /\ counters.errors = 2
    /\ counters.heartbeatsFiltered = 3
    /\ counters.searchCalls = 0

\* The five event counters of a counters object.
FiveCounters(c) ==
    << c.totalEvents, c.heartbeatsFiltered, c.searchCalls, c.addCalls, c.errors >>

\* C13: a process that restores from a state file written by writeState has
\* the five counters of the snapshot, the overrides of the snapshot, and a
\* startedAt equal to the time of the restore.
C13_PersistRestoreRoundTrip ==
    (exchange.op = "restore" /\ nextId = 1 /\ readState(stateFile) # <<>>)
    => LET saved == readState(stateFile)[1]
       IN /\ FiveCounters(counters) = FiveCounters(saved.stats)
          /\ counters.startedAt = << now >>
          /\ configOverrides = saved.configOverrides

C13_Witness ==
    /\ exchange.op = "restore" /\ nextId = 1
    /\ readState(stateFile) # <<>>
    /\ readState(stateFile)[1].stats.totalEvents = 2
    /\ readState(stateFile)[1].stats.errors = 1
    /\ readState(stateFile)[1].stats.startedAt = << StartTime >>
    /\ readState(stateFile)[1].configOverrides # EmptyObject
    /\ counters.totalEvents = 2
    /\ counters.startedAt = << StartTime + TickMs >>

\* Whether a configuration value is a number inside lo..hi.
InRange(x, lo, hi) == x.t = "num" /\ 10 * lo <= x.v /\ x.v <= 10 * hi

\* C19: in the effective configuration every sanitized numeric field is a
\* number inside its range.
C19_EffectiveConfigInRange ==
    exchange.op # "none" =>
        /\ InRange(cfg["memoryLimitNumber"], 0, 100)
        /\ InRange(cfg["preferenceLimitNumber"], 0, 100)
        /\ InRange(cfg["timeoutMs"], 0, 60000)
        /\ InRange(cfg["maxMessageChars"], 0, 1000000)
        /\ InRange(cfg["dashboardPort"], 1, 65535)

\* Whether a posted body carries a port, limit or timeout outside the range
\* the dashboard documents for it.
OutsideRange(body, k, lo, hi) == k \in DOMAIN body /\ ~InRange(body[k], lo, hi)

HasFieldOutOfRange(body) ==
    \/ OutsideRange(body, "dashboardPort", 1024, 65535)
    \/ OutsideRange(body, "memoryLimitNumber", 0, 100)
    \/ OutsideRange(body, "preferenceLimitNumber", 0, 100)
    \/ OutsideRange(body, "timeoutMs", 500, 60000)

\* C20: a POST /api/config whose body holds a port, limit or timeout outside
\* its range is answered 400 and leaves the overrides and the state file as
\* they were.
C20_RejectedBeforeMutation ==
    [][(exchange'.op = "post" /\ HasFieldOutOfRange(exchange'.body))
          => /\ exchange'.status = 400
             /\ configOverrides' = configOverrides
             /\ stateFile' = stateFile]_vars

\* Whether a text ends with the query marker.
EndsWithMarker(t) ==
    /\ Len(t) >= Len(USER_QUERY_MARKER)
    /\ SubSeq(t, Len(t) - Len(USER_QUERY_MARKER) + 1, Len(t)) = USER_QUERY_MARKER

\* C14: a rendered, non-empty prompt block ends with the query marker,
\* whatever the style or the custom template.
C14_BlockEndsWithMarker ==
    (fmt.used /\ fmt.out = "text" /\ fmt.block # <<>>) => EndsWithMarker(fmt.block)

\* What capturing the user's own input q alone yields.
CaptureOf(q) ==
    IF TrimStart(q) = <<>> THEN <<>>
    ELSE << [role |-> "user", content |-> truncate(TrimStart(q), cfg.maxMessageChars)] >>

\* C15: capturing a user message whose content is a prompt block followed by
\* the user's input q yields what capturing q alone yields.
C15_InjectCaptureRoundTrip ==
    (fmt.used /\ fmt.stage = "captured" /\ fmt.out = "text" /\ fmt.block # <<>>)
    => fmt.captured = CaptureOf(fmt.q)

\* The cleaned, non-empty texts of the fact and preference records of a
\* result.
ListTexts(list, isFact) ==
    IF list.t # "arr" THEN {}
    ELSE { sanitizeInlineText(IF isFact THEN FactText(list.items[i])
                              ELSE list.items[i].preference) : i \in 1..Len(list.items) }
         \ { <<>> }

UsableTexts(result) ==
    IF extractResultData(result) = <<>> THEN {}
    ELSE ListTexts(extractResultData(result)[1].memory_detail_list, TRUE)
         \cup ListTexts(extractResultData(result)[1].preference_detail_list, FALSE)

\* C16: formatPromptBlock returns the empty string when the result has no
\* usable fact or preference text, and otherwise a non-empty block that
\* contains every such text.
C16_EmptyIffNothingUsable ==
    fmt.used =>
        /\ fmt.out = "text"
        /\ (UsableTexts(fmt.result) = {}) <=> (fmt.block = <<>>)
        /\ \A t \in UsableTexts(fmt.result) : Includes(fmt.block, t)

\* The text extracted from a message: a user message loses what precedes the
\* query marker.
Extracted(m) ==
    IF m.role = "user" THEN stripPrependedPrompt(extractText(m.content))
    ELSE extractText(m.content)

\* Where a strategy starts reading: the last user message, or the first
\* message; 0 when last_turn finds no user message.
ScopeStart(messages, c) ==
    IF c.captureStrategy = "full_session" THEN 1 ELSE LastUserIndex(messages)

\* The positions whose message is captured: in scope, of a captured role, and
\* with a non-empty extracted text.
Eligible(messages, c) ==
    { i \in 1..Len(messages) :
        /\ ScopeStart(messages, c) # 0 /\ i >= ScopeStart(messages, c)
        /\ \/ messages[i].role = "user"
           \/ messages[i].role = "assistant" /\ c.includeAssistant
        /\ Extracted(messages[i]) # <<>> }

\* The k-th eligible position, in the order of the messages.
NthEligible(messages, c, k) ==
    CHOOSE i \in Eligible(messages, c) :
        Cardinality({ j \in Eligible(messages, c) : j <= i }) = k

\* C17: with strategy last_turn the captured messages are, in order, the
\* non-empty extracted messages from the last user message to the end;
\* nothing before the last user message is captured, assistant messages only
\* when includeAssistant is set, and without it every captured role is user.
C17_LastTurnExact ==
    (turn.stage = "selected" /\ cfg.captureStrategy = "last_turn") =>
        /\ Len(turn.captured) = Cardinality(Eligible(turn.messages, cfg))
        /\ \A k \in 1..Len(turn.captured) :
              LET m == turn.messages[NthEligible(turn.messages, cfg, k)]
              IN turn.captured[k] =
                    [role |-> m.role,
                     content |-> truncate(Extracted(m), cfg.maxMessageChars)]
        /\ ~cfg.includeAssistant =>
              \A k \in 1..Len(turn.captured) : turn.captured[k].role = "user"

\* A last-turn selection that leaves out a capturable message before the last
\* user message and keeps an assistant reply after it.
C17_Witness ==
    /\ turn.stage = "selected" /\ cfg.captureStrategy = "last_turn"
    /\ cfg.includeAssistant
    /\ LastUserIndex(turn.messages) > 1
    /\ Extracted(turn.messages[1]) # <<>>
    /\ turn.messages[1].role \in {"user", "assistant"}
    /\ Len(turn.captured) = 2
    /\ turn.captured[2].role = "assistant"

\* A text cut to maxLen characters with the ellipsis, when it is longer.
CutTo(text, maxLen) ==
    IF Len(text) > maxLen THEN SubSeq(text, 1, maxLen) \o <<".", ".", ".">> ELSE text

\* C18 as stated: in both strategies every captured message is non-empty, a
\* text longer than maxMessageChars is cut to that length with an ellipsis,
\* a shorter one is unchanged, and empty texts are dropped.
C18_TruncatedToMax ==
    turn.stage = "selected" =>
        /\ Len(turn.captured) = Cardinality(Eligible(turn.messages, cfg))
        /\ \A k \in 1..Len(turn.captured) :
              /\ turn.captured[k].content # <<>>
              /\ turn.captured[k].content =
                    CutTo(Extracted(turn.messages[NthEligible(turn.messages, cfg, k)]),
                          cfg.maxMessageChars)

\* C18, amended: the same for a positive maxMessageChars; with
\* maxMessageChars = 0 every non-empty text is captured unchanged.
C18_TruncatedToPositiveMax ==
    turn.stage = "selected" =>
        /\ Len(turn.captured) = Cardinality(Eligible(turn.messages, cfg))
        /\ \A k \in 1..Len(turn.captured) :
              LET text == Extracted(turn.messages[NthEligible(turn.messages, cfg, k)])
              IN /\ turn.captured[k].content # <<>>
                 /\ turn.captured[k].content =
                       IF cfg.maxMessageChars > 0
                       THEN CutTo(text, cfg.maxMessageChars)
                       ELSE text

\* A selection that cuts one text, passes one unchanged and drops an empty
\* one.
C18_Witness ==
    /\ turn.stage = "selected"
    /\ cfg.maxMessageChars = 2 /\ cfg.includeAssistant
    /\ Len(turn.messages) = 3 /\ Len(turn.captured) = 2
    /\ \E k \in 1..2 : Len(turn.captured[k].content) = 5
    /\ \E k \in 1..2 : Len(turn.captured[k].content) = 2
    /\ \E i \in 1..3 : /\ turn.messages[i].role \in {"user", "assistant"}
                       /\ Extracted(turn.messages[i]) = <<>>

\* C22: when the retry budget is exhausted, the error callApi throws is the
\* error of its final attempt; when every attempt timed out it is the
\* timeout error; a caller of callApi receives that same error.
C22_LastErrorSurfaced ==
    \A i \in Slots :
        LET s == slots[i]
            c == s.call
        IN (c.st = "threw" /\ c.attempts >= 1) =>
              /\ Len(c.errors) = c.attempts
              /\ c.lastError = c.errors[Len(c.errors)]
              /\ (\A k \in 1..Len(c.errors) : c.errors[k] = "timeout")
                    => c.lastError = "timeout"
              /\ s.kind = "direct" => (s.out = "threw" /\ s.err = c.errors[Len(c.errors)])

\* A call that fails first on the network and last by timing out.
C22_Witness ==
    \E i \in Slots :
        /\ slots[i].kind = "direct"
        /\ slots[i].call.st = "threw"
        /\ slots[i].call.errors = << "network", "http", "timeout" >>
        /\ slots[i].err = "timeout"

\* C23: the delay after the failure of attempt n is n x 100 ms; one delay
\* lies between two consecutive attempts and none follows the final failing
\* attempt; an attempt starts no earlier than its delay after the failure
\* before it.
C23_LinearBackoff ==
    \A i \in Slots :
        LET c == slots[i].call
        IN (c.st # "none" /\ c.attempts >= 1) =>
              /\ \A n \in 1..Len(c.delays) : c.delays[n] = n * BackoffUnitMs
              /\ Len(c.delays) = IF c.st = "backoff" THEN c.attempts ELSE c.attempts - 1
              /\ (c.st \in {"fetch", "body", "returned"} /\ c.attempts > 1)
                    => c.sentAt - c.failedAt >= (c.attempts - 1) * BackoffUnitMs

\* A call that has waited 100 ms and 200 ms and failed a third time.
C23_Witness ==
    \E i \in Slots :
        /\ slots[i].call.st = "threw"
        /\ slots[i].call.attempts = 3
        /\ slots[i].call.delays = << 100, 200 >>

\* Whether the call of a handler has met a malformed 2xx response: a body
\* that is no JSON, or JSON without the expected shape.
MetMalformed(c) ==
    \/ c.result \in {"nodata", "badshape"}
    \/ \E k \in 1..Len(c.errors) : c.errors[k] = "badjson"

\* C24: a malformed 2xx response is no usable result and no failure: the
\* recall handler returns no prompt block, the attempt is not retried, and
\* no error event is recorded for it.
C24_MalformedIsNoResult ==
    \A i \in Slots :
        LET s == slots[i]
            c == s.call
        IN (s.kind = "recall" /\ s.pc = "done" /\ MetMalformed(c)) =>
              /\ s.ret = "undefined"
              /\ \A k \in 1..Len(c.errors) : c.errors[k] = "badjson" => c.attempts = k
              /\ \A k \in 1..Len(s.recorded) : s.recorded[k] # "search_error"

\* C25: a turn-start invocation that issued a remote search has recorded
\* exactly one event for it, search when the call returned and search_error
\* when it threw, with a duration, however many attempts the call made.
C25_OneEntryPerSearch ==
    \A i \in Slots :
        LET s == slots[i]
        IN (s.kind = "recall" /\ s.pc = "done" /\ s.call.attempts >= 1) =>
              /\ s.recorded =
                    << IF s.call.st = "returned" THEN "search" ELSE "search_error" >>
              /\ Len(logBuffer) = 1
              /\ logBuffer[1].type = s.recorded[1]
              /\ logBuffer[1].durationMs # <<>>

\* C29: while an attempt is in flight, from the request to the parsed JSON,
\* its abort timer is armed.
C29_TimerCoversAttempt ==
    \A i \in Slots :
        (slots[i].pc = "await" /\ slots[i].call.st \in {"fetch", "body"})
        => slots[i].call.timerArmed

\* The record calls the handler in slot i makes in a step: those of a newly
\* dispatched invocation, or those a resumed invocation adds.
NewCalls(i) ==
    IF slots'[i] = slots[i] THEN 0
    ELSE IF invocations' # invocations THEN Len(slots'[i].recorded)
    ELSE Len(slots'[i].recorded) - Len(slots[i].recorded)

\* C26: with turn-end handlers interleaved at their remote calls, every
\* record call adds one to totalEvents and one entry with an id of its own,
\* and two turn-end events less than throttleMs apart never both pass the
\* throttle.
C26_NoLostUpdate ==
    /\ [](/\ counters.totalEvents = Len(logBuffer)
          /\ \A a, b \in 1..Len(logBuffer) :
                a # b => logBuffer[a].id # logBuffer[b].id
          /\ \A i, j \in Slots :
                ( /\ i # j /\ cfg.throttleMs > 0
                  /\ slots[i].setCapture /\ slots[j].setCapture
                  /\ slots[i].arrivedAt <= slots[j].arrivedAt )
                => slots[j].arrivedAt - slots[i].arrivedAt >= cfg.throttleMs)
    /\ [][counters'.totalEvents - counters.totalEvents = NewCalls(1) + NewCalls(2)]_vars

\* Two captures that awaited their calls at the same time have both
\* recorded.
C26_Witness ==
    /\ slots[1].kind = "capture" /\ slots[2].kind = "capture"
    /\ slots[1].arrivedAt = slots[2].arrivedAt
    /\ slots[1].pc = "done" /\ slots[2].pc = "done"
    /\ slots[1].path = "called" /\ slots[2].path = "called"
    /\ counters.totalEvents = 2
    /\ logBuffer[1].id = 1 /\ logBuffer[2].id = 2

\* C27: a session's conversation counter changes only by +1, in a step that
\* delivers a new-conversation signal carrying that session's key; turn
\* events, remote calls and telemetry leave the map alone, an event without a
\* session key changes no counter, and no key is ever removed.
C27_CounterChangesOnlyOnSignal ==
    [][ /\ DOMAIN conversationCounters \subseteq DOMAIN conversationCounters'
        /\ \A k \in DOMAIN conversationCounters' :
              conversationCounters'[k] # CounterOf(conversationCounters, k)
              => /\ k \in SessionKeys
                 /\ conversationCounters'[k] = CounterOf(conversationCounters, k) + 1
                 /\ ids'.signals[k] = ids.signals[k] + 1 ]_vars

\* One of two hook events has counted for s1, none for s2, and a turn-start
\* handler has run its search and recorded it.
C27_Witness ==
    /\ ids.total = 2
    /\ "s1" \in DOMAIN conversationCounters /\ conversationCounters["s1"] = 1
    /\ "s2" \notin DOMAIN conversationCounters
    /\ slots[1].kind = "recall" /\ slots[1].pc = "done"
    /\ counters.searchCalls = 1

\* The messages from the last user-authored message on; none when there is
\* no user message.
LastTurnSuffix(messages) ==
    IF LastUserIndex(messages) = 0 THEN <<>>
    ELSE SubSeq(messages, LastUserIndex(messages), Len(messages))

IsSuffix(a, b) ==
    Len(a) <= Len(b) /\ SubSeq(b, Len(b) - Len(a) + 1, Len(b)) = a

\* C28: what last_turn selects is what full_session selects from the suffix
\* that starts at the last user message, and it is a suffix of what
\* full_session selects from the whole sequence.
C28_LastTurnIsFullSessionOnSuffix ==
    turn.stage = "selected" =>
        LET lastTurn == IF cfg.captureStrategy = "full_session"
                        THEN pickLastTurnMessages(turn.messages, cfg)
                        ELSE turn.captured
            fullSession == IF cfg.captureStrategy = "full_session"
                           THEN turn.captured
                           ELSE pickFullSessionMessages(turn.messages, cfg)
        IN /\ lastTurn = pickFullSessionMessages(LastTurnSuffix(turn.messages), cfg)
           /\ IsSuffix(lastTurn, fullSession)

\* A full-session selection that captured more than the last turn holds,
\* marker-prefixed user input included.
C28_Witness ==
    /\ turn.stage = "selected" /\ cfg.captureStrategy = "full_session"
    /\ cfg.includeAssistant
    /\ LastUserIndex(turn.messages) = 3
    /\ Len(turn.captured) = 3
    /\ Len(pickLastTurnMessages(turn.messages, cfg)) = 1
    /\ \E i \in 1..3 : Includes(extractText(turn.messages[i].content), USER_QUERY_MARKER)

\* C30: a writeState that fails never throws and leaves the counters, the
\* ring buffer and the overrides as they were; the direct write is tried
\* once, and only when the temp-file-then-rename path failed; record calls
\* made after a failed write count as before.
C30_FailedWriteStaysInside ==
    [][ /\ exchange'.op = "persist" /\ exchange' # exchange
           => /\ ~exchange'.end.threw
              /\ exchange'.end.directWrites =
                    (IF exchange'.outcome = "renamed" THEN 0 ELSE 1)
              /\ exchange'.outcome \in {"failed", "torn"} =>
                    /\ readState(stateFile') = <<>> \/ stateFile' = stateFile
              /\ counters' = counters
              /\ logBuffer' = logBuffer
              /\ nextId' = nextId
              /\ configOverrides' = configOverrides
        /\ ( /\ exchange.op = "persist" /\ exchange.outcome \in {"failed", "torn"}
             /\ nextId' = nextId + 1 )
           => /\ counters'.totalEvents = counters.totalEvents + 1
              /\ Len(logBuffer') = Len(logBuffer) + 1 ]_vars

\* An event recorded after a write that failed and left the target truncated.
C30_Witness ==
    /\ exchange.op = "persist" /\ exchange.outcome = "torn"
    /\ stateFile # NoFile /\ readState(stateFile) = <<>>
    /\ counters.totalEvents = 2
    /\ Len(logBuffer) = 2

\* C21: nothing a caller writes to a value returned by getStats, getLogs or
\* getConfigOverrides, or to an entry or a nested value in it, changes the
\* counters, the entries of the ring buffer or the stored overrides.
C21_AccessorsReturnCopies ==
    [][caller'.writes # caller.writes
         => /\ counters' = counters
            /\ logBuffer' = logBuffer
            /\ Contents(configOverrides', caller'.heap)
                  = Contents(configOverrides, caller.heap)]_vars

\* C31: a callApi that was entered with a credential and has settled has
\* issued at least one fetch, and when it threw, what it threw is the error
\* of one of its attempts; for every retries value of the configuration.
C31_AtLeastOneAttempt ==
    \A i \in Slots :
        LET c == slots[i].call
        IN (c.apiKey # "" /\ c.st \in {"threw", "returned"})
           => /\ c.attempts >= 1
              /\ c.st = "threw" => c.lastError \in FailureKinds

\* The same for the retries values that are not negative.
C31_AtLeastOneAttemptFromZero ==
    \A i \in Slots :
        LET c == slots[i].call
        IN (c.apiKey # "" /\ c.retries >= 0 /\ c.st \in {"threw", "returned"})
           => /\ c.attempts >= 1
              /\ c.st = "threw" => c.lastError \in FailureKinds

\* Whether this step is a getLogs call whose result the caller now holds.
GetLogsReturned ==
    /\ caller'.kind = "logs"
    /\ caller' # caller
    /\ caller'.writes = caller.writes
    /\ caller'.heap = caller.heap

\* What getLogs is to return: the newest entries first, each a matching entry.
NewestFirst(held, matching) ==
    /\ Len(held) <= Len(matching)
    /\ \A k \in 1..Len(held) : held[k] = matching[Len(matching) + 1 - k]

\* C33: getLogs(typeFilter, limit) returns at most limit entries (none for a
\* limit that is not positive), for every limit the /api/logs endpoint
\* computes, and they are the newest matching entries, newest first.
C33_AtMostLimitNewestFirst ==
    [][GetLogsReturned
         => LET matching == FilterLogs(logBuffer, caller'.filter)
            IN /\ caller'.limit # <<>> => Len(caller'.held) <= Max(caller'.limit[1], 0)
               /\ NewestFirst(caller'.held, matching)]_vars

\* The same for the limits that are positive numbers: exactly the newest
\* min(limit, matching) entries.
C33_AtMostLimitWhenPositive ==
    [][(GetLogsReturned /\ caller'.limit # <<>> /\ caller'.limit[1] >= 1)
         => LET matching == FilterLogs(logBuffer, caller'.filter)
            IN /\ Len(caller'.held) = Min(caller'.limit[1], Len(matching))
               /\ NewestFirst(caller'.held, matching)]_vars

\* The telemetry counters (startedAt is no counter).
CounterFields == {"totalEvents", "heartbeatsFiltered", "searchCalls", "addCalls", "errors"}

NonDecreasing == \A f \in CounterFields : counters'[f] >= counters[f]

\* C34: within one process lifetime no step (record, persist, override set
\* or clear, accessor, initStats called again) makes a telemetry counter
\* smaller.
C34_CountersNeverDecrease == [][NonDecreasing]_vars

\* The same for the steps that are not a repeated register().
C34_CountersNeverDecreaseOutsideRegister ==
    [][now' = now => NonDecreasing]_vars

\* C32: a turn-end handler invocation that has set the last-capture
\* timestamp has made its capture-append call (callApi was entered), and a
\* turn-end event suppressed by the throttle was suppressed by an invocation
\* that made its call.
C32_TimestampOnlyWithCall ==
    /\ \A i \in Slots : slots[i].setCapture => slots[i].call.st # "none"
    /\ \A j \in Slots :
          slots[j].path = "throttled"
          => \A i \in Slots :
                ( /\ slots[i].setCapture
                  /\ slots[j].prevAccepted # <<>>
                  /\ slots[j].prevAccepted[1].at = slots[i].arrivedAt
                  /\ slots[j].prevAccepted[1].sessionKey = slots[i].ctx.sessionKey )
                => slots[i].call.st # "none"

\* A turn-end event with a user message is suppressed by the throttle window
\* of an earlier event that sent nothing.
C32_GenuineCaptureSuppressed ==
    \E i, j \in Slots :
        /\ i # j
        /\ slots[i].path = "empty" /\ slots[i].setCapture /\ slots[i].call.st = "none"
        /\ slots[j].path = "throttled" /\ slots[j].ev = EvNormal
        /\ slots[j].arrivedAt - slots[i].arrivedAt < cfg.throttleMs

\* The same for the invocations that selected a message.
C32_TimestampWithCallWhenSelected ==
    \A i \in Slots :
        (slots[i].setCapture /\ SelectMessages(slots[i].ev.messages, cfg) # <<>>)
        => slots[i].call.st # "none"

====
